---- MODULE Spec2Model ----
(***************************************************************************)
(* Stability AI MCP server: the tool-call handler (index.ts), the client   *)
(* that builds the multipart bodies and talks to the upstream API          *)
(* (stability-client.ts) and the endpoint registry (config.ts).            *)
(*                                                                         *)
(* One behaviour is one tool invocation: the handler validates the         *)
(* arguments, the client builds the form and issues the request, the       *)
(* upstream service answers (any status, or no answer at all), and the     *)
(* handler turns the outcome into a tool response.                         *)
(***************************************************************************)
EXTENDS Integers, Sequences, FiniteSets, TLC

(***************************************************************************)
(* Bounds of the model.                                                    *)
(***************************************************************************)
\* at most this many optional parameters are supplied in one tool call
MaxOptional == 1
\* the request log is never longer than this (above the poll ceiling + 1)
MaxLog == 62

(***************************************************************************)
(* Values.  A JavaScript string is a TLA+ string.  A JavaScript number is  *)
(* sign, integer part in two base-100000 limbs (seeds go up to             *)
(* 4294967294, beyond 32 bits) and a fraction in hundredths.               *)
(***************************************************************************)
Str(s) == [t |-> "str", s |-> s, neg |-> FALSE, hi |-> 0, lo |-> 0, frac |-> 0]
Num(neg, hi, lo, frac) ==
    [t |-> "num", s |-> "", neg |-> neg, hi |-> hi, lo |-> lo, frac |-> frac]
\* a small integer
IntNum(n) == Num(n < 0, 0, IF n < 0 THEN -n ELSE n, 0)
\* a small non-negative decimal with two fraction digits: Dec(0, 35) is 0.35
Dec(whole, hundredths) == Num(FALSE, 0, whole, hundredths)

IsStr(v) == v.t = "str"
IsNum(v) == v.t = "num"
IsInt(v) == IsNum(v) /\ v.frac = 0

\* |a| < |b|
MagLt(a, b) ==
    \/ a.hi < b.hi
    \/ a.hi = b.hi /\ a.lo < b.lo
    \/ a.hi = b.hi /\ a.lo = b.lo /\ a.frac < b.frac
MagEq(a, b) == a.hi = b.hi /\ a.lo = b.lo /\ a.frac = b.frac
IsZero(a) == a.hi = 0 /\ a.lo = 0 /\ a.frac = 0

\* a < b and a <= b on numbers
NumLt(a, b) ==
    IF IsZero(a) /\ IsZero(b) THEN FALSE
    ELSE IF a.neg /\ ~b.neg THEN TRUE
    ELSE IF ~a.neg /\ b.neg THEN FALSE
    ELSE IF a.neg THEN MagLt(b, a)
    ELSE MagLt(a, b)
NumLe(a, b) == ~NumLt(b, a)

(***************************************************************************)
(* Number.prototype.toString for the numbers above: decimal digits of the  *)
(* integer part, then "." and the fraction without trailing zeros.         *)
(***************************************************************************)
Digits == "0123456789"
DigitChar(d) == SubSeq(Digits, d + 1, d + 1)

RECURSIVE NatToString(_)
NatToString(n) ==
    IF n < 10 THEN DigitChar(n)
    ELSE NatToString(n \div 10) \o DigitChar(n % 10)

\* the low limb printed with its leading zeros
PadLimb(n) ==
    DigitChar((n \div 10000) % 10) \o DigitChar((n \div 1000) % 10)
        \o DigitChar((n \div 100) % 10) \o DigitChar((n \div 10) % 10)
        \o DigitChar(n % 10)

FracToString(f) ==
    IF f = 0 THEN ""
    ELSE IF f % 10 = 0 THEN "." \o DigitChar(f \div 10)
    ELSE "." \o DigitChar(f \div 10) \o DigitChar(f % 10)

NumToString(v) ==
    (IF v.neg /\ ~IsZero(v) THEN "-" ELSE "")
        \o (IF v.hi = 0 THEN NatToString(v.lo)
            ELSE NatToString(v.hi) \o PadLimb(v.lo))
        \o FracToString(v.frac)

(***************************************************************************)
(* Strings: String.prototype.includes, toLowerCase, startsWith.            *)
(***************************************************************************)
Includes(s, sub) ==
    \E i \in 1..(Len(s) - Len(sub) + 1) : SubSeq(s, i, i + Len(sub) - 1) = sub

StartsWith(s, prefix) ==
    Len(s) >= Len(prefix) /\ SubSeq(s, 1, Len(prefix)) = prefix

UpperChars == "ABCDEFGHIJKLMNOPQRSTUVWXYZ"
LowerChars == "abcdefghijklmnopqrstuvwxyz"
LowerChar(c) ==
    IF \E i \in 1..26 : SubSeq(UpperChars, i, i) = c
    THEN LET i == CHOOSE j \in 1..26 : SubSeq(UpperChars, j, j) = c
         IN  SubSeq(LowerChars, i, i)
    ELSE c

RECURSIVE ToLowerCase(_)
ToLowerCase(s) ==
    IF s = "" THEN ""
    ELSE LowerChar(SubSeq(s, 1, 1)) \o ToLowerCase(SubSeq(s, 2, Len(s)))

(***************************************************************************)
(* config.ts: the endpoint registry.                                       *)
(***************************************************************************)
API_BASE == "https://api.stability.ai"

GENERATION_MODELS ==
    [m \in {"ultra", "core", "sd3.5-large", "sd3.5-large-turbo", "sd3.5-medium"} |->
        CASE m = "ultra" -> "/v2beta/stable-image/generate/ultra"
          [] m = "core" -> "/v2beta/stable-image/generate/core"
          [] OTHER -> "/v2beta/stable-image/generate/sd3"]

\* a registry in which inpainting shares the path of erasing
EDIT_ENDPOINTS_Aliased ==
    [op \in {"erase", "inpaint", "outpaint", "search-and-replace",
             "search-and-recolor", "remove-background",
             "replace-background-and-relight"} |->
        IF op = "inpaint" THEN "/v2beta/stable-image/edit/erase"
        ELSE "/v2beta/stable-image/edit/" \o op]

EDIT_ENDPOINTS ==
    [op \in {"erase", "inpaint", "outpaint", "search-and-replace",
             "search-and-recolor", "remove-background",
             "replace-background-and-relight"} |->
        "/v2beta/stable-image/edit/" \o op]

UPSCALE_ENDPOINTS ==
    [m \in {"fast", "conservative", "creative"} |->
        "/v2beta/stable-image/upscale/" \o m]

CONTROL_ENDPOINTS ==
    [op \in {"sketch", "structure", "style", "style-transfer"} |->
        "/v2beta/stable-image/control/" \o op]

THREE_D_ENDPOINTS ==
    [m \in {"stable-fast-3d", "spar3d"} |->
        IF m = "stable-fast-3d" THEN "/v2beta/3d/stable-fast-3d"
        ELSE "/v2beta/3d/stable-point-aware-3d"]

(***************************************************************************)
(* The local file system: the working directory and the files in it.       *)
(* path.resolve, path.extname and fs.existsSync.                           *)
(***************************************************************************)
Cwd == "/work"
ExistingFiles == {"/work/in.png", "/work/mask.PNG", "/work/style.jpeg"}

LastIndexOf(s, c) ==
    LET I == {i \in 1..Len(s) : SubSeq(s, i, i) = c}
    IN  IF I = {} THEN 0 ELSE CHOOSE i \in I : \A j \in I : j <= i

Resolve(p) ==
    IF StartsWith(p, "/") THEN p
    ELSE IF p = "" THEN Cwd
    ELSE Cwd \o "/" \o p

BaseName(p) == SubSeq(p, LastIndexOf(p, "/") + 1, Len(p))

ExtName(p) ==
    LET b == BaseName(p)
        i == LastIndexOf(b, ".")
    IN  IF i <= 1 THEN "" ELSE SubSeq(b, i, Len(b))

Directories == {Cwd}
ExistsSync(abs) == abs \in ExistingFiles \/ abs \in Directories

(***************************************************************************)
(* Errors are a name and a message, as a JavaScript Error.                 *)
(***************************************************************************)
NoError == [name |-> "", message |-> ""]
Err(message) == [name |-> "Error", message |-> message]

(***************************************************************************)
(* stability-client.ts: getMimeType and fileBlob.                          *)
(***************************************************************************)
\* a table looked up with the extension as it is written
getMimeType_CaseSensitive(filePath) ==
    LET ext == ExtName(filePath)
    IN  CASE ext = ".png" -> "image/png"
          [] ext = ".jpg" -> "image/jpeg"
          [] ext = ".jpeg" -> "image/jpeg"
          [] ext = ".webp" -> "image/webp"
          [] ext = ".gif" -> "image/gif"
          [] ext = ".bmp" -> "image/bmp"
          [] OTHER -> "image/png"

getMimeType(filePath) ==
    LET ext == ToLowerCase(ExtName(filePath))
    IN  CASE ext = ".png" -> "image/png"
          [] ext = ".jpg" -> "image/jpeg"
          [] ext = ".jpeg" -> "image/jpeg"
          [] ext = ".webp" -> "image/webp"
          [] ext = ".gif" -> "image/gif"
          [] ext = ".bmp" -> "image/bmp"
          [] OTHER -> "image/png"

\* a fileBlob that does not look whether the file exists
fileBlob_NoCheck(filePath) == [err |-> NoError, blob |-> Resolve(filePath)]

\* the Blob of a file that exists, or the error thrown for one that does not
fileBlob(filePath) ==
    LET absolutePath == Resolve(filePath)
    IN  IF ~ExistsSync(absolutePath)
        THEN [err |-> Err("File not found: " \o absolutePath), blob |-> ""]
        ELSE IF absolutePath \in Directories
        THEN [err |-> [name |-> "Error",
                       message |-> "EISDIR: illegal operation on a directory, read"],
              blob |-> ""]
        ELSE [err |-> NoError, blob |-> absolutePath]

(***************************************************************************)
(* FormData: the parts in the order they were appended.  Building stops at *)
(* the first fileBlob that throws.                                         *)
(***************************************************************************)
EmptyForm == [err |-> NoError, parts |-> <<>>]

TextPart(name, value) ==
    [name |-> name, kind |-> "text", value |-> value, type |-> ""]
FilePart(name, absolutePath) ==
    [name |-> name, kind |-> "file", value |-> absolutePath,
     type |-> getMimeType(absolutePath)]

AppendText(f, name, value) ==
    IF f.err # NoError THEN f
    ELSE [f EXCEPT !.parts = Append(@, TextPart(name, value))]

\* a file part that is attached by its path, the file to be read on sending
AppendFile_Unread(f, name, filePath) ==
    IF f.err # NoError THEN f
    ELSE [f EXCEPT !.parts = Append(@, FilePart(name, Resolve(filePath)))]

AppendFile(f, name, filePath) ==
    IF f.err # NoError THEN f
    ELSE LET b == fileBlob(filePath)
         IN  IF b.err # NoError THEN [f EXCEPT !.err = b.err]
             ELSE [f EXCEPT !.parts = Append(@, FilePart(name, b.blob))]

(***************************************************************************)
(* Options of a client method: a function from the option names that are   *)
(* not undefined to their values.                                          *)
(***************************************************************************)
Defined(o, k) == k \in DOMAIN o
\* JavaScript truthiness: a non-empty string, a non-zero number
Truthy(o, k) ==
    /\ k \in DOMAIN o
    /\ IF IsStr(o[k]) THEN o[k].s # "" ELSE ~IsZero(o[k])
\* options.k || d
OrDefault(o, k, d) == IF Truthy(o, k) THEN o[k].s ELSE d

\* if (options.k) form.append(name, options.k)
AppendIfTruthy(f, o, k, name) ==
    IF Truthy(o, k) THEN AppendText(f, name, o[k].s) ELSE f
\* a test of truthiness where the code tests for undefined: 0 is dropped
AppendIfDefined_Truthy(f, o, k, name) ==
    IF Truthy(o, k) THEN AppendText(f, name, NumToString(o[k])) ELSE f

\* if (options.k !== undefined) form.append(name, options.k.toString())
AppendIfDefined(f, o, k, name) ==
    IF Defined(o, k) THEN AppendText(f, name, NumToString(o[k])) ELSE f
\* if (options.k) form.append(name, await this.fileBlob(options.k))
AppendFileIfTruthy(f, o, k, name) ==
    IF Truthy(o, k) THEN AppendFile(f, name, o[k].s) ELSE f
\* form.append('output_format', options.outputFormat || 'png')
AppendOutputFormat(f, o) ==
    AppendText(f, "output_format", OrDefault(o, "outputFormat", "png"))

\* table[key] in a template string: "undefined" for a key the table lacks
Lookup(table, key) == IF key \in DOMAIN table THEN table[key] ELSE "undefined"

(***************************************************************************)
(* stability-client.ts: the form each client method builds.                *)
(***************************************************************************)
generateImageModel(o) == OrDefault(o, "model", "core")

\* the branch of the SD3 models with the strength appended outside the image test
sd3Fields_StrengthAlways(f, o, model) ==
    LET g1 == AppendText(f, "model", model)
        g2 == IF Truthy(o, "image")
              THEN AppendFile(AppendText(g1, "mode", "image-to-image"),
                              "image", o["image"].s)
              ELSE AppendText(g1, "mode", "text-to-image")
    IN  IF Defined(o, "strength")
        THEN AppendText(g2, "strength", NumToString(o["strength"]))
        ELSE g2

\* if (model.startsWith('sd3.5')) { ... }
sd3Fields(f, o, model) ==
    LET g1 == AppendText(f, "model", model)
    IN  IF Truthy(o, "image")
        THEN AppendIfDefined(
                 AppendFile(AppendText(g1, "mode", "image-to-image"),
                            "image", o["image"].s),
                 o, "strength", "strength")
        ELSE AppendText(g1, "mode", "text-to-image")

generateImageForm(o) ==
    LET model == generateImageModel(o)
        f1 == AppendText(EmptyForm, "prompt", o["prompt"].s)
        f2 == AppendIfTruthy(f1, o, "negativePrompt", "negative_prompt")
        f3 == AppendIfDefined(f2, o, "seed", "seed")
        f4 == AppendIfTruthy(f3, o, "aspectRatio", "aspect_ratio")
        f5 == AppendOutputFormat(f4, o)
        f6 == IF StartsWith(model, "sd3.5") THEN sd3Fields(f5, o, model)
              ELSE IF model = "ultra" /\ Truthy(o, "image")
              THEN AppendIfDefined(AppendFile(f5, "image", o["image"].s),
                                   o, "strength", "strength")
              ELSE f5
    IN  IF Truthy(o, "stylePreset") /\ (model = "core" \/ StartsWith(model, "sd3.5"))
        THEN AppendText(f6, "style_preset", o["stylePreset"].s)
        ELSE f6

eraseObjectForm(o) ==
    AppendOutputFormat(
        AppendFileIfTruthy(AppendFile(EmptyForm, "image", o["image"].s),
                           o, "mask", "mask"),
        o)

inpaintForm(o) ==
    LET f1 == AppendFile(EmptyForm, "image", o["image"].s)
        f2 == AppendText(f1, "prompt", o["prompt"].s)
        f3 == AppendFileIfTruthy(f2, o, "mask", "mask")
        f4 == AppendIfTruthy(f3, o, "negativePrompt", "negative_prompt")
        f5 == AppendIfDefined(f4, o, "seed", "seed")
    IN  AppendOutputFormat(f5, o)

outpaintForm(o) ==
    LET f1 == AppendFile(EmptyForm, "image", o["image"].s)
        f2 == AppendIfTruthy(f1, o, "prompt", "prompt")
        f3 == AppendIfDefined(f2, o, "left", "left")
        f4 == AppendIfDefined(f3, o, "right", "right")
        f5 == AppendIfDefined(f4, o, "top", "top")
        f6 == AppendIfDefined(f5, o, "bottom", "bottom")
        f7 == AppendIfDefined(f6, o, "creativity", "creativity")
    IN  AppendOutputFormat(f7, o)

searchAndReplaceForm(o) ==
    LET f1 == AppendFile(EmptyForm, "image", o["image"].s)
        f2 == AppendText(f1, "prompt", o["prompt"].s)
        f3 == AppendText(f2, "search_prompt", o["searchPrompt"].s)
        f4 == AppendIfTruthy(f3, o, "negativePrompt", "negative_prompt")
        f5 == AppendIfDefined(f4, o, "seed", "seed")
    IN  AppendOutputFormat(f5, o)

searchAndRecolorForm(o) ==
    LET f1 == AppendFile(EmptyForm, "image", o["image"].s)
        f2 == AppendText(f1, "prompt", o["prompt"].s)
        f3 == AppendText(f2, "select_prompt", o["selectPrompt"].s)
        f4 == AppendIfTruthy(f3, o, "negativePrompt", "negative_prompt")
        f5 == AppendIfDefined(f4, o, "seed", "seed")
    IN  AppendOutputFormat(f5, o)

removeBackgroundForm(o) ==
    AppendOutputFormat(AppendFile(EmptyForm, "image", o["image"].s), o)

replaceBackgroundForm(o) ==
    LET f1 == AppendFile(EmptyForm, "image", o["image"].s)
        f2 == AppendText(f1, "background_prompt", o["backgroundPrompt"].s)
        f3 == AppendIfTruthy(f2, o, "foregroundPrompt", "foreground_prompt")
        f4 == AppendIfTruthy(f3, o, "negativePrompt", "negative_prompt")
        f5 == AppendIfTruthy(f4, o, "lightSourceDirection", "light_source_direction")
        f6 == AppendIfDefined(f5, o, "lightSourceStrength", "light_source_strength")
    IN  AppendOutputFormat(f6, o)

upscaleImageMode(o) == OrDefault(o, "mode", "fast")

upscaleImageForm(o) ==
    LET mode == upscaleImageMode(o)
        f1 == AppendFile(EmptyForm, "image", o["image"].s)
        f2 == AppendOutputFormat(f1, o)
    IN  IF mode # "fast"
        THEN LET g1 == AppendIfTruthy(f2, o, "prompt", "prompt")
                 g2 == AppendIfTruthy(g1, o, "negativePrompt", "negative_prompt")
                 g3 == AppendIfDefined(g2, o, "seed", "seed")
             IN  AppendIfDefined(g3, o, "creativity", "creativity")
        ELSE f2

\* controlSketch and controlStructure build the same fields
controlStrengthForm(o) ==
    LET f1 == AppendFile(EmptyForm, "image", o["image"].s)
        f2 == AppendText(f1, "prompt", o["prompt"].s)
        f3 == AppendIfTruthy(f2, o, "negativePrompt", "negative_prompt")
        f4 == AppendIfDefined(f3, o, "seed", "seed")
        f5 == AppendIfDefined(f4, o, "controlStrength", "control_strength")
    IN  AppendOutputFormat(f5, o)

controlStyleForm(o) ==
    LET f1 == AppendFile(EmptyForm, "image", o["image"].s)
        f2 == AppendText(f1, "prompt", o["prompt"].s)
        f3 == AppendIfTruthy(f2, o, "negativePrompt", "negative_prompt")
        f4 == AppendIfDefined(f3, o, "seed", "seed")
        f5 == AppendIfDefined(f4, o, "fidelity", "fidelity")
    IN  AppendOutputFormat(f5, o)

styleTransferForm(o) ==
    LET f1 == AppendFile(EmptyForm, "init_image", o["initImage"].s)
        f2 == AppendFile(f1, "style_image", o["styleImage"].s)
        f3 == AppendIfTruthy(f2, o, "prompt", "prompt")
        f4 == AppendIfTruthy(f3, o, "negativePrompt", "negative_prompt")
        f5 == AppendIfDefined(f4, o, "seed", "seed")
    IN  AppendOutputFormat(f5, o)

generate3DModel(o) == OrDefault(o, "model", "stable-fast-3d")

\* a form that takes every field whatever the model
generate3DForm_Ungated(o) ==
    LET f1 == AppendFile(EmptyForm, "image", o["image"].s)
        f2 == AppendIfDefined(f1, o, "textureResolution", "texture_resolution")
        f3 == AppendIfDefined(f2, o, "foregroundRatio", "foreground_ratio")
        f4 == AppendIfTruthy(f3, o, "remesh", "remesh")
    IN  AppendIfDefined(f4, o, "guidanceScale", "guidance_scale")

generate3DForm(o) ==
    LET model == generate3DModel(o)
        f1 == AppendFile(EmptyForm, "image", o["image"].s)
        f2 == AppendIfDefined(f1, o, "textureResolution", "texture_resolution")
    IN  IF model = "stable-fast-3d"
        THEN AppendIfTruthy(AppendIfDefined(f2, o, "foregroundRatio", "foreground_ratio"),
                            o, "remesh", "remesh")
        ELSE IF model = "spar3d"
        THEN AppendIfDefined(f2, o, "guidanceScale", "guidance_scale")
        ELSE f2

(***************************************************************************)
(* The client methods: the form, the endpoint and the helper that sends    *)
(* it (postImage, postImageAsync for the creative upscale, postRaw for 3D, *)
(* a plain GET for the balance).                                           *)
(***************************************************************************)
Methods ==
    {"generateImage", "eraseObject", "inpaint", "outpaint", "searchAndReplace",
     "searchAndRecolor", "removeBackground", "replaceBackground", "upscaleImage",
     "controlSketch", "controlStructure", "controlStyle", "styleTransfer",
     "generate3D", "checkBalance"}

MethodForm(method, o) ==
    CASE method = "generateImage" -> generateImageForm(o)
      [] method = "eraseObject" -> eraseObjectForm(o)
      [] method = "inpaint" -> inpaintForm(o)
      [] method = "outpaint" -> outpaintForm(o)
      [] method = "searchAndReplace" -> searchAndReplaceForm(o)
      [] method = "searchAndRecolor" -> searchAndRecolorForm(o)
      [] method = "removeBackground" -> removeBackgroundForm(o)
      [] method = "replaceBackground" -> replaceBackgroundForm(o)
      [] method = "upscaleImage" -> upscaleImageForm(o)
      [] method = "controlSketch" -> controlStrengthForm(o)
      [] method = "controlStructure" -> controlStrengthForm(o)
      [] method = "controlStyle" -> controlStyleForm(o)
      [] method = "styleTransfer" -> styleTransferForm(o)
      [] method = "generate3D" -> generate3DForm(o)
      [] OTHER -> EmptyForm

MethodEndpoint(method, o) ==
    CASE method = "generateImage" -> Lookup(GENERATION_MODELS, generateImageModel(o))
      [] method = "eraseObject" -> EDIT_ENDPOINTS["erase"]
      [] method = "inpaint" -> EDIT_ENDPOINTS["inpaint"]
      [] method = "outpaint" -> EDIT_ENDPOINTS["outpaint"]
      [] method = "searchAndReplace" -> EDIT_ENDPOINTS["search-and-replace"]
      [] method = "searchAndRecolor" -> EDIT_ENDPOINTS["search-and-recolor"]
      [] method = "removeBackground" -> EDIT_ENDPOINTS["remove-background"]
      [] method = "replaceBackground" -> EDIT_ENDPOINTS["replace-background-and-relight"]
      [] method = "upscaleImage" -> Lookup(UPSCALE_ENDPOINTS, upscaleImageMode(o))
      [] method = "controlSketch" -> CONTROL_ENDPOINTS["sketch"]
      [] method = "controlStructure" -> CONTROL_ENDPOINTS["structure"]
      [] method = "controlStyle" -> CONTROL_ENDPOINTS["style"]
      [] method = "styleTransfer" -> CONTROL_ENDPOINTS["style-transfer"]
      [] method = "generate3D" -> Lookup(THREE_D_ENDPOINTS, generate3DModel(o))
      [] OTHER -> "/v1/user/balance"

\* a dispatch that polls for every upscale but the fast one
MethodSender_AsyncUnlessFast(method, o) ==
    CASE method = "upscaleImage" ->
            IF upscaleImageMode(o) # "fast" THEN "postImageAsync" ELSE "postImage"
      [] method = "generate3D" -> "postRaw"
      [] method = "checkBalance" -> "get"
      [] OTHER -> "postImage"

MethodSender(method, o) ==
    CASE method = "upscaleImage" ->
            IF upscaleImageMode(o) = "creative" THEN "postImageAsync" ELSE "postImage"
      [] method = "generate3D" -> "postRaw"
      [] method = "checkBalance" -> "get"
      [] OTHER -> "postImage"

(***************************************************************************)
(* index.ts: the zod schema of each tool.  A rule is a string (with a      *)
(* minimum length), a number (integer or not, with or without bounds) or   *)
(* an enumeration; only a string rule built by ZRequired is required.      *)
(***************************************************************************)
Zero == IntNum(0)
One == IntNum(1)
\* 4294967294
SeedMax == Num(FALSE, 42949, 67294, 0)

ZRule(kind, required, minLen, int, hasMin, min, hasMax, max, hasValues, values) ==
    [kind |-> kind, required |-> required, minLen |-> minLen, int |-> int,
     hasMin |-> hasMin, min |-> min, hasMax |-> hasMax, max |-> max,
     hasValues |-> hasValues, values |-> values]

\* z.string().min(1)
ZRequired == ZRule("string", TRUE, 1, FALSE, FALSE, Zero, FALSE, Zero, FALSE, {})
\* z.string().optional()
ZString == ZRule("string", FALSE, 0, FALSE, FALSE, Zero, FALSE, Zero, FALSE, {})
\* z.enum([...]).optional()
ZEnum(values) ==
    ZRule("enum", FALSE, 0, FALSE, FALSE, Zero, FALSE, Zero, TRUE, values)
\* z.number().min(lo).max(hi).optional()
ZRange(lo, hi) == ZRule("number", FALSE, 0, FALSE, TRUE, lo, TRUE, hi, FALSE, {})
\* z.number().int().min(lo).max(hi).optional()
ZIntRange(lo, hi) == ZRule("number", FALSE, 0, TRUE, TRUE, lo, TRUE, hi, FALSE, {})
\* z.number().int().optional()
ZInt == ZRule("number", FALSE, 0, TRUE, FALSE, Zero, FALSE, Zero, FALSE, {})

ZFormat == ZEnum({"png", "jpeg", "webp"})

Tools ==
    {"generate_image", "erase_object", "inpaint", "outpaint", "search_and_replace",
     "search_and_recolor", "remove_background", "replace_background",
     "upscale_image", "control_sketch", "control_structure", "control_style",
     "style_transfer", "generate_3d", "check_balance"}

ZodSchema(tool) ==
    CASE tool = "generate_image" ->
            ("prompt" :> ZRequired)
         @@ ("model" :> ZEnum({"ultra", "core", "sd3.5-large", "sd3.5-large-turbo",
                               "sd3.5-medium"}))
         @@ ("negative_prompt" :> ZString)
         @@ ("image_path" :> ZString)
         @@ ("strength" :> ZRange(Zero, One))
         @@ ("aspect_ratio" :> ZString)
         @@ ("style_preset" :> ZString)
         @@ ("output_format" :> ZFormat)
         @@ ("seed" :> ZIntRange(Zero, SeedMax))
         @@ ("save_path" :> ZString)
      [] tool = "erase_object" ->
            ("image_path" :> ZRequired)
         @@ ("mask_path" :> ZString)
         @@ ("output_format" :> ZFormat)
         @@ ("save_path" :> ZString)
      [] tool = "inpaint" ->
            ("image_path" :> ZRequired)
         @@ ("prompt" :> ZRequired)
         @@ ("mask_path" :> ZString)
         @@ ("negative_prompt" :> ZString)
         @@ ("seed" :> ZInt)
         @@ ("output_format" :> ZFormat)
         @@ ("save_path" :> ZString)
      [] tool = "outpaint" ->
            ("image_path" :> ZRequired)
         @@ ("prompt" :> ZString)
         @@ ("left" :> ZIntRange(Zero, IntNum(2000)))
         @@ ("right" :> ZIntRange(Zero, IntNum(2000)))
         @@ ("top" :> ZIntRange(Zero, IntNum(2000)))
         @@ ("bottom" :> ZIntRange(Zero, IntNum(2000)))
         @@ ("creativity" :> ZRange(Zero, One))
         @@ ("output_format" :> ZFormat)
         @@ ("save_path" :> ZString)
      [] tool = "search_and_replace" ->
            ("image_path" :> ZRequired)
         @@ ("prompt" :> ZRequired)
         @@ ("search_prompt" :> ZRequired)
         @@ ("negative_prompt" :> ZString)
         @@ ("seed" :> ZInt)
         @@ ("output_format" :> ZFormat)
         @@ ("save_path" :> ZString)
      [] tool = "search_and_recolor" ->
            ("image_path" :> ZRequired)
         @@ ("prompt" :> ZRequired)
         @@ ("select_prompt" :> ZRequired)
         @@ ("negative_prompt" :> ZString)
         @@ ("seed" :> ZInt)
         @@ ("output_format" :> ZFormat)
         @@ ("save_path" :> ZString)
      [] tool = "remove_background" ->
            ("image_path" :> ZRequired)
         @@ ("output_format" :> ZEnum({"png", "webp"}))
         @@ ("save_path" :> ZString)
      [] tool = "replace_background" ->
            ("image_path" :> ZRequired)
         @@ ("background_prompt" :> ZRequired)
         @@ ("foreground_prompt" :> ZString)
         @@ ("negative_prompt" :> ZString)
         @@ ("light_source_direction" :> ZEnum({"above", "below", "left", "right"}))
         @@ ("light_source_strength" :> ZRange(Zero, One))
         @@ ("output_format" :> ZFormat)
         @@ ("save_path" :> ZString)
      [] tool = "upscale_image" ->
            ("image_path" :> ZRequired)
         @@ ("mode" :> ZEnum({"fast", "conservative", "creative"}))
         @@ ("prompt" :> ZString)
         @@ ("negative_prompt" :> ZString)
         @@ ("creativity" :> ZRange(Zero, Dec(0, 35)))
         @@ ("seed" :> ZInt)
         @@ ("output_format" :> ZFormat)
         @@ ("save_path" :> ZString)
      [] tool \in {"control_sketch", "control_structure"} ->
            ("image_path" :> ZRequired)
         @@ ("prompt" :> ZRequired)
         @@ ("negative_prompt" :> ZString)
         @@ ("control_strength" :> ZRange(Zero, One))
         @@ ("seed" :> ZInt)
         @@ ("output_format" :> ZFormat)
         @@ ("save_path" :> ZString)
      [] tool = "control_style" ->
            ("image_path" :> ZRequired)
         @@ ("prompt" :> ZRequired)
         @@ ("negative_prompt" :> ZString)
         @@ ("fidelity" :> ZRange(Zero, One))
         @@ ("seed" :> ZInt)
         @@ ("output_format" :> ZFormat)
         @@ ("save_path" :> ZString)
      [] tool = "style_transfer" ->
            ("init_image_path" :> ZRequired)
         @@ ("style_image_path" :> ZRequired)
         @@ ("prompt" :> ZString)
         @@ ("negative_prompt" :> ZString)
         @@ ("seed" :> ZInt)
         @@ ("output_format" :> ZFormat)
         @@ ("save_path" :> ZString)
      [] tool = "generate_3d" ->
            ("image_path" :> ZRequired)
         @@ ("model" :> ZEnum({"stable-fast-3d", "spar3d"}))
         @@ ("texture_resolution" :> ZInt)
         @@ ("foreground_ratio" :> ZRange(Dec(0, 10), One))
         @@ ("remesh" :> ZEnum({"none", "triangle", "quad"}))
         @@ ("guidance_scale" :> ZRange(One, IntNum(10)))
         @@ ("save_path" :> ZString)
      [] OTHER -> <<>>

\* an enumeration that accepts any string
ZodOk_AnyString(rule, v) ==
    CASE rule.kind = "string" -> IsStr(v) /\ Len(v.s) >= rule.minLen
      [] rule.kind = "enum" -> IsStr(v)
      [] OTHER ->
            /\ IsNum(v)
            /\ rule.int => IsInt(v)
            /\ rule.hasMin => NumLe(rule.min, v)
            /\ rule.hasMax => NumLe(v, rule.max)

\* one value against one rule
ZodOk(rule, v) ==
    CASE rule.kind = "string" -> IsStr(v) /\ Len(v.s) >= rule.minLen
      [] rule.kind = "enum" -> IsStr(v) /\ v.s \in rule.values
      [] OTHER ->
            /\ IsNum(v)
            /\ rule.int => IsInt(v)
            /\ rule.hasMin => NumLe(rule.min, v)
            /\ rule.hasMax => NumLe(v, rule.max)

\* schema.parse(args) does not throw
ZodParses(tool, args) ==
    LET schema == ZodSchema(tool)
    IN  \A p \in DOMAIN schema :
            IF p \in DOMAIN args THEN ZodOk(schema[p], args[p])
            ELSE ~schema[p].required

(***************************************************************************)
(* index.ts: the bounds and value sets the tools declare for their numeric *)
(* parameters in the inputSchema they list.                                *)
(***************************************************************************)
\* { type: 'number', minimum: lo, maximum: hi }
DRange(lo, hi) == ZRule("number", FALSE, 0, FALSE, TRUE, lo, TRUE, hi, FALSE, {})
\* { type: 'integer', minimum: lo, maximum: hi }
DIntRange(lo, hi) == ZRule("number", FALSE, 0, TRUE, TRUE, lo, TRUE, hi, FALSE, {})
\* { type: 'integer', enum: [...] }
DIntEnum(values) ==
    ZRule("number", FALSE, 0, TRUE, FALSE, Zero, FALSE, Zero, TRUE, values)
DSeed == DIntRange(Zero, SeedMax)

DeclaredNumeric(tool) ==
    CASE tool = "generate_image" ->
            ("strength" :> DRange(Zero, One)) @@ ("seed" :> DSeed)
      [] tool \in {"inpaint", "search_and_replace", "search_and_recolor",
                   "style_transfer"} ->
            ("seed" :> DSeed)
      [] tool = "outpaint" ->
            ("left" :> DIntRange(Zero, IntNum(2000)))
         @@ ("right" :> DIntRange(Zero, IntNum(2000)))
         @@ ("top" :> DIntRange(Zero, IntNum(2000)))
         @@ ("bottom" :> DIntRange(Zero, IntNum(2000)))
         @@ ("creativity" :> DRange(Zero, One))
      [] tool = "replace_background" ->
            ("light_source_strength" :> DRange(Zero, One))
      [] tool = "upscale_image" ->
            ("creativity" :> DRange(Zero, Dec(0, 35))) @@ ("seed" :> DSeed)
      [] tool \in {"control_sketch", "control_structure"} ->
            ("control_strength" :> DRange(Zero, One)) @@ ("seed" :> DSeed)
      [] tool = "control_style" ->
            ("fidelity" :> DRange(Zero, One)) @@ ("seed" :> DSeed)
      [] tool = "generate_3d" ->
            ("texture_resolution" :> DIntEnum({IntNum(512), IntNum(1024), IntNum(2048)}))
         @@ ("foreground_ratio" :> DRange(Dec(0, 10), One))
         @@ ("guidance_scale" :> DRange(One, IntNum(10)))
      [] OTHER -> <<>>

\* a number within what the tool declares for the parameter
DeclaredOk(rule, v) ==
    /\ IsNum(v)
    /\ rule.int => IsInt(v)
    /\ rule.hasMin => NumLe(rule.min, v)
    /\ rule.hasMax => NumLe(v, rule.max)
    /\ rule.hasValues => v \in rule.values

(***************************************************************************)
(* index.ts: what each case of the handler does around its client call.    *)
(***************************************************************************)
\* loadConfig() with only STABILITY_API_KEY set
config ==
    [apiKey |-> "sk-key", timeout |-> 60000,
     outputDir |-> "./generated-images", output3dDir |-> "./generated-3d"]

ToolMethod(tool) ==
    CASE tool = "generate_image" -> "generateImage"
      [] tool = "erase_object" -> "eraseObject"
      [] tool = "inpaint" -> "inpaint"
      [] tool = "outpaint" -> "outpaint"
      [] tool = "search_and_replace" -> "searchAndReplace"
      [] tool = "search_and_recolor" -> "searchAndRecolor"
      [] tool = "remove_background" -> "removeBackground"
      [] tool = "replace_background" -> "replaceBackground"
      [] tool = "upscale_image" -> "upscaleImage"
      [] tool = "control_sketch" -> "controlSketch"
      [] tool = "control_structure" -> "controlStructure"
      [] tool = "control_style" -> "controlStyle"
      [] tool = "style_transfer" -> "styleTransfer"
      [] tool = "generate_3d" -> "generate3D"
      [] OTHER -> "checkBalance"

\* the existence checks of the handler, in order: the parameter, the text of
\* the error, and whether the check is skipped for a falsy value
FileChecks(tool) ==
    LET Check(param, label, optional) ==
            [param |-> param, label |-> label, optional |-> optional]
    IN  CASE tool = "generate_image" ->
                <<Check("image_path", "Source image not found: ", TRUE)>>
          [] tool = "control_sketch" ->
                <<Check("image_path", "Sketch image not found: ", FALSE)>>
          [] tool = "control_structure" ->
                <<Check("image_path", "Reference image not found: ", FALSE)>>
          [] tool = "control_style" ->
                <<Check("image_path", "Style reference not found: ", FALSE)>>
          [] tool = "style_transfer" ->
                <<Check("init_image_path", "Content image not found: ", FALSE),
                  Check("style_image_path", "Style image not found: ", FALSE)>>
          [] tool = "check_balance" -> <<>>
          [] OTHER -> <<Check("image_path", "Image not found: ", FALSE)>>

FileCheckFails(c, input) ==
    /\ c.optional => Truthy(input, c.param)
    /\ ~ExistsSync(Resolve(input[c.param].s))

\* the text of the first existence check that fails, "" when none does
FileCheckError(tool, input) ==
    LET checks == FileChecks(tool)
        F == {i \in 1..Len(checks) : FileCheckFails(checks[i], input)}
    IN  IF F = {} THEN ""
        ELSE LET i == CHOOSE j \in F : \A k \in F : j <= k
             IN  checks[i].label \o input[checks[i].param].s

\* which parameter each option of the client call is taken from
OptionMap(tool) ==
    CASE tool = "generate_image" ->
            ("prompt" :> "prompt") @@ ("model" :> "model")
         @@ ("negativePrompt" :> "negative_prompt") @@ ("image" :> "image_path")
         @@ ("strength" :> "strength") @@ ("seed" :> "seed")
         @@ ("aspectRatio" :> "aspect_ratio") @@ ("outputFormat" :> "output_format")
         @@ ("stylePreset" :> "style_preset")
      [] tool = "erase_object" ->
            ("image" :> "image_path") @@ ("mask" :> "mask_path")
         @@ ("outputFormat" :> "output_format")
      [] tool = "inpaint" ->
            ("image" :> "image_path") @@ ("prompt" :> "prompt")
         @@ ("mask" :> "mask_path") @@ ("negativePrompt" :> "negative_prompt")
         @@ ("seed" :> "seed")
      [] tool = "outpaint" ->
            ("image" :> "image_path") @@ ("prompt" :> "prompt")
         @@ ("left" :> "left") @@ ("right" :> "right") @@ ("top" :> "top")
         @@ ("bottom" :> "bottom") @@ ("creativity" :> "creativity")
         @@ ("outputFormat" :> "output_format")
      [] tool = "search_and_replace" ->
            ("image" :> "image_path") @@ ("prompt" :> "prompt")
         @@ ("searchPrompt" :> "search_prompt")
         @@ ("negativePrompt" :> "negative_prompt") @@ ("seed" :> "seed")
         @@ ("outputFormat" :> "output_format")
      [] tool = "search_and_recolor" ->
            ("image" :> "image_path") @@ ("prompt" :> "prompt")
         @@ ("selectPrompt" :> "select_prompt")
         @@ ("negativePrompt" :> "negative_prompt") @@ ("seed" :> "seed")
         @@ ("outputFormat" :> "output_format")
      [] tool = "remove_background" ->
            ("image" :> "image_path") @@ ("outputFormat" :> "output_format")
      [] tool = "replace_background" ->
            ("image" :> "image_path") @@ ("backgroundPrompt" :> "background_prompt")
         @@ ("foregroundPrompt" :> "foreground_prompt")
         @@ ("negativePrompt" :> "negative_prompt")
         @@ ("lightSourceDirection" :> "light_source_direction")
         @@ ("lightSourceStrength" :> "light_source_strength")
         @@ ("outputFormat" :> "output_format")
      [] tool = "upscale_image" ->
            ("image" :> "image_path") @@ ("prompt" :> "prompt")
         @@ ("negativePrompt" :> "negative_prompt") @@ ("seed" :> "seed")
         @@ ("creativity" :> "creativity") @@ ("outputFormat" :> "output_format")
      [] tool \in {"control_sketch", "control_structure"} ->
            ("image" :> "image_path") @@ ("prompt" :> "prompt")
         @@ ("negativePrompt" :> "negative_prompt")
         @@ ("controlStrength" :> "control_strength") @@ ("seed" :> "seed")
         @@ ("outputFormat" :> "output_format")
      [] tool = "control_style" ->
            ("image" :> "image_path") @@ ("prompt" :> "prompt")
         @@ ("negativePrompt" :> "negative_prompt")
         @@ ("fidelity" :> "fidelity") @@ ("seed" :> "seed")
         @@ ("outputFormat" :> "output_format")
      [] tool = "style_transfer" ->
            ("initImage" :> "init_image_path") @@ ("styleImage" :> "style_image_path")
         @@ ("prompt" :> "prompt") @@ ("negativePrompt" :> "negative_prompt")
         @@ ("seed" :> "seed") @@ ("outputFormat" :> "output_format")
      [] tool = "generate_3d" ->
            ("image" :> "image_path") @@ ("model" :> "model")
         @@ ("textureResolution" :> "texture_resolution")
         @@ ("foregroundRatio" :> "foreground_ratio") @@ ("remesh" :> "remesh")
         @@ ("guidanceScale" :> "guidance_scale")
      [] OTHER -> <<>>

\* the options object the handler passes to the client method
ToolOptions(tool, input) ==
    LET m == OptionMap(tool)
        K == {k \in DOMAIN m : m[k] \in DOMAIN input}
        passed == [k \in K |-> input[m[k]]]
    IN  IF tool = "upscale_image"
        THEN ("mode" :> Str(OrDefault(input, "mode", "fast"))) @@ passed
        ELSE passed

\* the prefix of the auto-generated file name
SavePrefix(tool, input) ==
    CASE tool = "generate_image" -> "generated"
      [] tool = "erase_object" -> "erased"
      [] tool = "inpaint" -> "inpainted"
      [] tool = "outpaint" -> "outpainted"
      [] tool = "search_and_replace" -> "replaced"
      [] tool = "search_and_recolor" -> "recolored"
      [] tool = "remove_background" -> "nobg"
      [] tool = "replace_background" -> "newbg"
      [] tool = "upscale_image" -> "upscaled-" \o OrDefault(input, "mode", "fast")
      [] tool = "control_sketch" -> "sketch"
      [] tool = "control_structure" -> "structure"
      [] tool = "control_style" -> "styled"
      [] tool = "style_transfer" -> "transferred"
      [] OTHER -> "model"

\* new Date().toISOString().replace(/[:.]/g, '-') at the time of the call
Timestamp == "2026-01-01T00-00-00-000Z"

\* path.resolve(dir, file) for the relative directories of the configuration
ResolveIn(dir, file) ==
    LET d == IF StartsWith(dir, "./") THEN SubSeq(dir, 3, Len(dir)) ELSE dir
    IN  Resolve(d) \o "/" \o file

getAutoSavePath(outputDir, prefix, ext) ==
    ResolveIn(outputDir, prefix \o "-" \o Timestamp \o "." \o ext)

\* the first line of the text of a successful response
SuccessText(tool, input, savedTo) ==
    CASE tool = "generate_image" -> "Image generated and saved to: " \o savedTo
      [] tool = "erase_object" -> "Object erased. Saved to: " \o savedTo
      [] tool = "inpaint" -> "Inpainted image saved to: " \o savedTo
      [] tool = "outpaint" -> "Outpainted image saved to: " \o savedTo
      [] tool = "search_and_replace" ->
            "Replaced \"" \o input["search_prompt"].s \o "\" with \""
                \o input["prompt"].s \o "\". Saved to: " \o savedTo
      [] tool = "search_and_recolor" ->
            "Recolored \"" \o input["select_prompt"].s \o "\" to \""
                \o input["prompt"].s \o "\". Saved to: " \o savedTo
      [] tool = "remove_background" -> "Background removed. Saved to: " \o savedTo
      [] tool = "replace_background" -> "Background replaced. Saved to: " \o savedTo
      [] tool = "upscale_image" ->
            "Image upscaled (" \o OrDefault(input, "mode", "fast")
                \o " mode). Saved to: " \o savedTo
      [] tool = "control_sketch" -> "Generated from sketch. Saved to: " \o savedTo
      [] tool = "control_structure" ->
            "Structure-guided image generated. Saved to: " \o savedTo
      [] tool = "control_style" ->
            "Style-guided image generated. Saved to: " \o savedTo
      [] tool = "style_transfer" -> "Style transferred. Saved to: " \o savedTo
      [] OTHER -> "3D model generated and saved to: " \o savedTo

(***************************************************************************)
(* The upstream service: what a fetch can resolve to, or reject with.      *)
(***************************************************************************)
OkStatuses == {200, 201}
ErrorStatuses == {400, 401, 402, 403, 429, 500}

Undefined == [t |-> "undefined", s |-> "", neg |-> FALSE, hi |-> 0, lo |-> 0, frac |-> 0]
NaN == [t |-> "NaN", s |-> "", neg |-> FALSE, hi |-> 0, lo |-> 0, frac |-> 0]

HttpResponse(status, text, contentType, seed, finish, data, jsonOk, id) ==
    [status |-> status, text |-> text, contentType |-> contentType,
     seed |-> seed, finish |-> finish, data |-> data, jsonOk |-> jsonOk, id |-> id,
     credits |-> Undefined]

\* a failure: a status and the text of the body
ErrorResponses ==
    {HttpResponse(st, "upstream says no", "application/json", "", "", "", TRUE, "")
        : st \in ErrorStatuses}

\* binary content, with or without the content-type, seed and finish-reason headers
BinaryResponses ==
    {HttpResponse(st, "", h[1], h[2], h[3], "BYTES", FALSE, "")
        : st \in OkStatuses,
          h \in {<<"image/png", "42", "SUCCESS">>, <<"image/jpeg", "", "">>,
                 <<"image/webp", "4294967294", "">>, <<"", "", "CONTENT_FILTERED">>}}

\* "accepted, not yet ready"
PendingResponses ==
    {HttpResponse(202, "", "application/json", "", "", "", TRUE, "abc123")}

\* the answer to a job submission: a JSON body with or without an id, or no JSON
SubmitResponses ==
    {HttpResponse(st, "", "application/json", "", "", "", j[1], j[2])
        : st \in OkStatuses \cup {202},
          j \in {<<TRUE, "abc123">>, <<TRUE, "">>, <<FALSE, "">>}}

\* the answer to the balance request: JSON with or without the credits
BalanceResponses ==
    {[HttpResponse(st, "", "application/json", "", "", "", j[1], "")
            EXCEPT !.credits = j[2]]
        : st \in OkStatuses,
          j \in {<<TRUE, Dec(12, 50)>>, <<TRUE, Undefined>>, <<FALSE, Undefined>>}}

\* what fetch rejects with: the AbortSignal.timeout of the request, or the network
Rejections ==
    {[name |-> "TimeoutError", message |-> "The operation was aborted due to timeout"],
     [name |-> "TypeError", message |-> "fetch failed"]}

\* response.ok without the upper end of the 2xx range
IsOk_NoUpperBound(status) == status >= 200

\* response.ok
IsOk(status) == status >= 200 /\ status <= 299

(***************************************************************************)
(* stability-client.ts: decoding a successful binary response.             *)
(***************************************************************************)
DigitOf(c) == CHOOSE d \in 0..9 : DigitChar(d) = c
IsDigit(c) == \E d \in 0..9 : DigitChar(d) = c

RECURSIVE DigitsToNat(_)
DigitsToNat(s) ==
    IF s = "" THEN 0
    ELSE 10 * DigitsToNat(SubSeq(s, 1, Len(s) - 1)) + DigitOf(SubSeq(s, Len(s), Len(s)))

\* parseInt of a header: the leading digits, NaN when there are none
parseInt(s) ==
    LET N == {n \in 0..Len(s) : \A i \in 1..n : IsDigit(SubSeq(s, i, i))}
        n == CHOOSE m \in N : \A k \in N : k <= m
        digits == SubSeq(s, 1, n)
    IN  IF n = 0 THEN NaN
        ELSE IF n <= 5 THEN Num(FALSE, 0, DigitsToNat(digits), 0)
        ELSE Num(FALSE, DigitsToNat(SubSeq(digits, 1, n - 5)),
                 DigitsToNat(SubSeq(digits, n - 4, n)), 0)

\* a decoder that knows webp and the default only
FormatOf_NoJpeg(contentTypeHeader) ==
    LET contentType == IF contentTypeHeader = "" THEN "image/png" ELSE contentTypeHeader
    IN  IF Includes(contentType, "webp") THEN "webp" ELSE "png"

FormatOf(contentTypeHeader) ==
    LET contentType == IF contentTypeHeader = "" THEN "image/png" ELSE contentTypeHeader
    IN  IF Includes(contentType, "jpeg") THEN "jpeg"
        ELSE IF Includes(contentType, "webp") THEN "webp"
        ELSE "png"

NoResult == [data |-> "", format |-> "", seed |-> Undefined, finishReason |-> ""]

\* { data: buffer, format, seed, finishReason }
ImageResult(r) ==
    [data |-> r.data, format |-> FormatOf(r.contentType),
     seed |-> IF r.seed # "" THEN parseInt(r.seed) ELSE Undefined,
     finishReason |-> r.finish]

\* { data: buffer, format: 'glb' }
ThreeDResult(r) ==
    [data |-> r.data, format |-> "glb", seed |-> Undefined, finishReason |-> ""]

\* the error without the text of the body
HttpError_StatusOnly(prefix, r) ==
    Err(prefix \o " (HTTP " \o NatToString(r.status) \o ")")

HttpError(prefix, r) ==
    Err(prefix \o " (HTTP " \o NatToString(r.status) \o "): " \o r.text)

\* handleError: the classification of an error by its name and message.  No
\* method of the client and no handler calls it.
handleError(e) ==
    IF e.name = "TimeoutError" \/ Includes(e.message, "timeout")
    THEN Err("Stability AI API request timed out. Please try again.")
    ELSE IF Includes(e.message, "401") \/ Includes(e.message, "403")
    THEN Err("Invalid Stability AI API key. Please check your STABILITY_API_KEY environment variable.")
    ELSE IF Includes(e.message, "429")
    THEN Err("Stability AI API rate limit exceeded. Please wait a moment and try again.")
    ELSE IF Includes(e.message, "402")
    THEN Err("Insufficient credits. Please add credits at platform.stability.ai.")
    ELSE Err("Stability AI error: " \o e.message)


(***************************************************************************)
(* stability-client.ts: the requests.                                      *)
(***************************************************************************)
Request(method, path, accept, timeout, body) ==
    [method |-> method, url |-> API_BASE \o path,
     authorization |-> "Bearer " \o config.apiKey,
     accept |-> accept, timeout |-> timeout, body |-> body]

\* the request a client method sends once its form is built
FirstRequest(sender, endpoint, parts) ==
    CASE sender = "postImage" ->
            Request("POST", endpoint, "image/*", config.timeout * 3, parts)
      [] sender = "postRaw" ->
            Request("POST", endpoint, "application/json", config.timeout * 3, parts)
      [] sender = "postImageAsync" ->
            Request("POST", endpoint, "application/json", config.timeout, parts)
      [] OTHER ->
            Request("GET", endpoint, "", config.timeout, <<>>)

PollRequest(generationId) ==
    Request("GET", "/v2beta/results/" \o generationId, "image/*", config.timeout, <<>>)

(***************************************************************************)
(* postImageAsync: the poll loop.                                          *)
(***************************************************************************)
\* a ceiling one poll too high
maxAttempts_OneMore == 60 + 1

maxAttempts == 60
pollInterval == 5000

TimedOutError ==
    Err("Async generation timed out after "
            \o NatToString((maxAttempts * pollInterval) \div 1000) \o " seconds")

\* for (...; attempt < maxAttempts; ...)
LoopContinues(attempt) == attempt < maxAttempts

\* a loop that forgets to count
NextAttempt_Stuck(attempt) == attempt

\* attempt++
NextAttempt(attempt) == attempt + 1

\* a loop body that polls again after a failed poll
PollOutcome_RetryOnError(r) ==
    IF r.status = 202 \/ ~IsOk(r.status) THEN "continue" ELSE "return"

\* a loop body that polls again on every status but 200
PollOutcome_Only200(r) ==
    IF r.status # 200 /\ r.status >= 200 /\ r.status <= 299 THEN "continue"
    ELSE IF ~IsOk(r.status) THEN "throw"
    ELSE "return"

\* what the loop body does with the response of a poll
PollOutcome(r) ==
    IF r.status = 202 THEN "continue"
    ELSE IF ~IsOk(r.status) THEN "throw"
    ELSE "return"

\* a submission that is never checked
SubmitOutcome_Unchecked(r) == NoError

\* a submission whose id is not checked
SubmitOutcome_NoIdCheck(r) ==
    IF ~IsOk(r.status) THEN HttpError("Stability AI error", r)
    ELSE IF ~r.jsonOk
    THEN [name |-> "SyntaxError", message |-> "Unexpected token in JSON"]
    ELSE NoError

\* what postImageAsync does with the response of the submission
SubmitOutcome(r) ==
    IF ~IsOk(r.status) THEN HttpError("Stability AI error", r)
    ELSE IF ~r.jsonOk
    THEN [name |-> "SyntaxError", message |-> "Unexpected token in JSON"]
    ELSE IF r.id = "" THEN Err("No generation ID returned from async endpoint")
    ELSE NoError

(***************************************************************************)
(* index.ts: the responses of the handler.                                 *)
(***************************************************************************)
NoResponse == [sent |-> FALSE, isError |-> FALSE, text |-> "", data |-> "", mimeType |-> ""]

\* { content: [{ type: 'text', text }], isError: true }
ErrorResponse(text) ==
    [sent |-> TRUE, isError |-> TRUE, text |-> text, data |-> "", mimeType |-> ""]

\* the catch of the handler
\* a catch that passes the error on instead of returning
CaughtResponse_Rethrown(e) == NoResponse

CaughtResponse(e) == ErrorResponse("Stability AI error: " \o e.message)

\* Number.prototype.toFixed(2) and toFixed(1) of the sizes and credits modelled
ToFixed2(v) ==
    (IF v.hi = 0 THEN NatToString(v.lo) ELSE NatToString(v.hi) \o PadLimb(v.lo))
        \o "." \o DigitChar(v.frac \div 10) \o DigitChar(v.frac % 10)
KiloBytes(data) ==
    LET tenths == (Len(data) * 20 + 1024) \div 2048
    IN  NatToString(tenths \div 10) \o "." \o DigitChar(tenths % 10)

SeedText(seed) ==
    IF seed = Undefined THEN ""
    ELSE IF seed = NaN THEN "\nSeed: NaN"
    ELSE "\nSeed: " \o NumToString(seed)

\* where the handler saves the payload
SavedTo(tool, input, format) ==
    Resolve(IF Truthy(input, "save_path") THEN input["save_path"].s
            ELSE IF tool = "generate_3d"
            THEN getAutoSavePath(config.output3dDir, "model", "glb")
            ELSE getAutoSavePath(config.outputDir, SavePrefix(tool, input), format))

\* what the handler returns for the result of an image tool
ImageResponse(tool, input, res) ==
    LET format == OrDefault(input, "output_format", "png")
        savedTo == SavedTo(tool, input, format)
        text == SuccessText(tool, input, savedTo)
                    \o (IF tool = "generate_image"
                        THEN SeedText(res.seed) \o "\nModel: "
                                \o OrDefault(input, "model", "core")
                        ELSE "")
    IN  [sent |-> TRUE, isError |-> FALSE, text |-> text, data |-> res.data,
         mimeType |-> "image/" \o format]

ThreeDResponse(tool, input, res) ==
    [sent |-> TRUE, isError |-> FALSE,
     text |-> SuccessText(tool, input, SavedTo(tool, input, "glb"))
                \o "\nFormat: glTF Binary (.glb)\nModel: "
                \o OrDefault(input, "model", "stable-fast-3d")
                \o "\nSize: " \o KiloBytes(res.data) \o " KB",
     data |-> "", mimeType |-> ""]

BalanceResponse(credits) ==
    [sent |-> TRUE, isError |-> FALSE,
     text |-> "Stability AI Credits: " \o ToFixed2(credits),
     data |-> "", mimeType |-> ""]

\* a saveFile that creates the file and leaves the payload out
saveFile_Empty(files, data, savedTo) == Append(files, [path |-> savedTo, data |-> ""])

\* saveFile(result.data, savePath)
saveFile(files, data, savedTo) == Append(files, [path |-> savedTo, data |-> data])

(***************************************************************************)
(* The state of one tool invocation.                                       *)
(***************************************************************************)
VARIABLES
    pc,            \* where the invocation stands: "idle", the pending await, "done"
    tool,          \* the name of the tool called
    args,          \* the arguments of the call
    requests,      \* the upstream requests issued so far, in order
    received,      \* the upstream responses received so far, in order
    attempt,       \* the loop counter of postImageAsync
    waits,         \* the number of poll intervals slept through
    elapsed,       \* the milliseconds slept in poll intervals
    generationId,  \* the id of the asynchronous job
    result,        \* what the client method returned
    error,         \* what was thrown inside the handler
    response,      \* what the handler returned to the host
    written        \* the files written, in order

vars ==
    <<pc, tool, args, requests, received, attempt, waits, elapsed, generationId, result,
      error, response, written>>

Init ==
    /\ pc = "idle"
    /\ tool = ""
    /\ args = <<>>
    /\ requests = <<>>
    /\ received = <<>>
    /\ attempt = 0
    /\ waits = 0
    /\ elapsed = 0
    /\ generationId = ""
    /\ result = NoResult
    /\ error = NoError
    /\ response = NoResponse
    /\ written = <<>>

\* the handler returns without a result
Fails(e, resp) ==
    /\ pc' = "done"
    /\ error' = e
    /\ response' = resp
    /\ UNCHANGED <<result, written>>

\* the catch of the handler returns the error thrown
Throws(e) == Fails(e, CaughtResponse(e))

\* the client method returned an image: the handler saves and returns it
ReturnsImage(res) ==
    LET resp == ImageResponse(tool, args, res)
    IN  /\ pc' = "done"
        /\ result' = res
        /\ written' = saveFile(written, res.data,
                               SavedTo(tool, args, OrDefault(args, "output_format", "png")))
        /\ response' = resp
        /\ UNCHANGED error

(***************************************************************************)
(* The tool calls of the model: every tool, and every choice of arguments  *)
(* among a few values per parameter (absent, empty, missing file, at and   *)
(* beyond each declared bound), with at most MaxOptional optional ones.     *)
(***************************************************************************)
ToolNames == Tools \cup {"no_such_tool"}

Params(t) == DOMAIN ZodSchema(t)
RequiredParams(t) == {p \in Params(t) : ZodSchema(t)[p].required}

NumberValues(t, p) ==
    LET d == DeclaredNumeric(t)[p]
    IN  IF d.hasValues THEN d.values \cup {IntNum(600)}
        ELSE {d.min, d.max, [d.max EXCEPT !.lo = @ + 1],
              IF IsZero(d.min) THEN IntNum(-1) ELSE Dec(0, 5),
              Dec(0, 50)}

ParamValues(t, p) ==
    LET rule == ZodSchema(t)[p]
    IN  CASE rule.kind = "number" -> NumberValues(t, p)
          [] rule.kind = "enum" -> {Str(v) : v \in rule.values} \cup {Str("bogus")}
          [] p = "mask_path" -> {Str(""), Str("/work/mask.PNG"), Str("gone.png")}
          [] p = "style_image_path" -> {Str(""), Str("style.jpeg"), Str("gone.png")}
          [] p \in {"image_path", "init_image_path"} ->
                {Str(""), Str("in.png"), Str("gone.png")}
          [] p = "save_path" -> {Str("out/result.png")}
          [] OTHER -> {Str(""), Str("a red fox")}

RECURSIVE ArgsOver(_, _)
ArgsOver(t, P) ==
    IF P = {} THEN {<<>>}
    ELSE LET p == CHOOSE q \in P : TRUE
         IN  {(p :> v) @@ a : v \in ParamValues(t, p), a \in ArgsOver(t, P \ {p})}

ToolArgs(t) ==
    UNION {ArgsOver(t, P) :
            P \in {Q \in SUBSET Params(t) :
                     Cardinality(Q \ RequiredParams(t)) <= MaxOptional}}

(***************************************************************************)
(* The handler of a tool call, up to the first await that suspends it.     *)
(***************************************************************************)
ZodError == [name |-> "ZodError", message |-> "Invalid arguments"]

CallTool(t, input) ==
    /\ pc = "idle"
    /\ tool' = t
    /\ args' = input
    /\ UNCHANGED <<received, attempt, waits, elapsed, generationId>>
    /\ IF t \notin Tools
       THEN requests' = requests /\ Throws(Err("Unknown tool: " \o t))
       ELSE IF ~ZodParses(t, input)
       THEN requests' = requests /\ Throws(ZodError)
       ELSE IF FileCheckError(t, input) # ""
       THEN requests' = requests
                /\ Fails(NoError, ErrorResponse(FileCheckError(t, input)))
       ELSE LET method == ToolMethod(t)
                o == ToolOptions(t, input)
                f == MethodForm(method, o)
            IN  IF f.err # NoError
                THEN requests' = requests /\ Throws(f.err)
                ELSE /\ requests' = <<FirstRequest(MethodSender(method, o),
                                                   MethodEndpoint(method, o), f.parts)>>
                     /\ pc' = MethodSender(method, o)
                     /\ UNCHANGED <<result, error, response, written>>

(***************************************************************************)
(* The continuations of the client methods.                                *)
(***************************************************************************)
Awaiting == {"postImage", "postImageAsync", "postRaw", "get", "polling"}

\* a loop that reports a rejected poll as its own timeout
FetchRejects_AsCeiling(e) ==
    /\ pc \in Awaiting
    /\ Throws(IF pc = "polling" THEN TimedOutError ELSE e)
    /\ UNCHANGED <<tool, args, requests, received, attempt, waits, elapsed,
                   generationId>>

\* the pending fetch rejects: its timeout elapsed, or the network failed
FetchRejects(e) ==
    /\ pc \in Awaiting
    /\ Throws(e)
    /\ UNCHANGED <<tool, args, requests, received, attempt, waits, elapsed,
                   generationId>>

\* postImage, after its fetch
PostImageResponds(r) ==
    /\ pc = "postImage"
    /\ IF ~IsOk(r.status) THEN Throws(HttpError("Stability AI error", r))
       ELSE ReturnsImage(ImageResult(r))
    /\ received' = Append(received, r)
    /\ UNCHANGED <<tool, args, requests, attempt, waits, elapsed, generationId>>

\* generate3D, after postRaw
PostRawResponds(r) ==
    /\ pc = "postRaw"
    /\ IF ~IsOk(r.status) THEN Throws(HttpError("3D generation failed", r))
       ELSE LET res == ThreeDResult(r)
            IN  /\ pc' = "done"
                /\ result' = res
                /\ written' = saveFile(written, res.data, SavedTo(tool, args, "glb"))
                /\ response' = ThreeDResponse(tool, args, res)
                /\ UNCHANGED error
    /\ received' = Append(received, r)
    /\ UNCHANGED <<tool, args, requests, attempt, waits, elapsed, generationId>>

\* checkBalance, after its fetch
BalanceResponds(r) ==
    /\ pc = "get"
    /\ IF ~IsOk(r.status) THEN Throws(HttpError("Failed to check balance", r))
       ELSE IF ~r.jsonOk
       THEN Throws([name |-> "SyntaxError", message |-> "Unexpected token in JSON"])
       ELSE IF r.credits = Undefined
       THEN Throws([name |-> "TypeError",
                    message |-> "Cannot read properties of undefined (reading 'toFixed')"])
       ELSE /\ pc' = "done"
            /\ response' = BalanceResponse(r.credits)
            /\ UNCHANGED <<result, error, written>>
    /\ received' = Append(received, r)
    /\ UNCHANGED <<tool, args, requests, attempt, waits, elapsed, generationId>>

\* the head of the poll loop with the counter at a: sleep, or give up
LoopHead(a) ==
    IF LoopContinues(a)
    THEN pc' = "sleeping" /\ UNCHANGED <<result, error, response, written>>
    ELSE Throws(TimedOutError)

\* postImageAsync, after the fetch of the submission
SubmitResponds(r) ==
    /\ pc = "postImageAsync"
    /\ received' = Append(received, r)
    /\ UNCHANGED <<tool, args, requests, waits, elapsed>>
    /\ IF SubmitOutcome(r) # NoError
       THEN Throws(SubmitOutcome(r)) /\ UNCHANGED <<attempt, generationId>>
       ELSE /\ generationId' = r.id
            /\ attempt' = 0
            /\ LoopHead(0)

\* the poll interval has passed: the poll is sent
TimerFires ==
    /\ pc = "sleeping"
    /\ Len(requests) < MaxLog
    /\ waits' = waits + 1
    /\ elapsed' = elapsed + pollInterval
    /\ requests' = Append(requests, PollRequest(generationId))
    /\ pc' = "polling"
    /\ UNCHANGED <<tool, args, received, attempt, generationId, result, error, response, written>>

\* postImageAsync, after the fetch of a poll
PollResponds(r) ==
    /\ pc = "polling"
    /\ received' = Append(received, r)
    /\ UNCHANGED <<tool, args, requests, waits, elapsed, generationId>>
    /\ CASE PollOutcome(r) = "continue" ->
                attempt' = NextAttempt(attempt) /\ LoopHead(NextAttempt(attempt))
         [] PollOutcome(r) = "throw" ->
                attempt' = attempt /\ Throws(HttpError("Polling failed", r))
         [] OTHER ->
                attempt' = attempt /\ ReturnsImage(ImageResult(r))

Next ==
    \/ \E t \in ToolNames : \E input \in ToolArgs(t) : CallTool(t, input)
    \/ \E e \in Rejections : FetchRejects(e)
    \/ \E r \in BinaryResponses \cup PendingResponses \cup ErrorResponses :
            PostImageResponds(r)
    \/ \E r \in BinaryResponses \cup PendingResponses \cup ErrorResponses :
            PostRawResponds(r)
    \/ \E r \in BalanceResponses \cup ErrorResponses : BalanceResponds(r)
    \/ \E r \in SubmitResponses \cup ErrorResponses : SubmitResponds(r)
    \/ TimerFires
    \/ \E r \in BinaryResponses \cup PendingResponses \cup ErrorResponses :
            PollResponds(r)

Spec == Init /\ [][Next]_vars

LiveProgress ==
    \/ \E e \in Rejections : FetchRejects(e)
    \/ \E r \in BinaryResponses \cup PendingResponses \cup ErrorResponses :
            PostImageResponds(r) \/ PostRawResponds(r) \/ PollResponds(r)
    \/ \E r \in BalanceResponses \cup ErrorResponses : BalanceResponds(r)
    \/ \E r \in SubmitResponses \cup ErrorResponses : SubmitResponds(r)
    \/ TimerFires

\* every pending fetch settles (a response, or the rejection of its timeout)
\* and every poll interval ends
LiveSpec == Init /\ [][Next]_vars /\ WF_vars(LiveProgress)

(***************************************************************************)
(* Properties of the asynchronous job (postImageAsync).                    *)
(***************************************************************************)
IsPoll(q) == q.method = "GET" /\ Includes(q.url, "/v2beta/results/")
PollCount == Cardinality({i \in 1..Len(requests) : IsPoll(requests[i])})

\* the invocation went through postImageAsync
AsyncJob ==
    /\ Len(requests) >= 1
    /\ requests[1].method = "POST"
    /\ Includes(requests[1].url, "/upscale/creative")

In2xx(status) == status \in 200..299

\* the submission was answered with a job id
SubmitAccepted ==
    /\ Len(received) >= 1
    /\ In2xx(received[1].status)
    /\ received[1].jsonOk
    /\ received[1].id # ""

\* the answers to polls 1..k were all 202
PendingUpTo(k) == \A i \in 2..(k + 1) : received[i].status = 202

TimedOutMessage == "Async generation timed out after 300 seconds"

ExpectedFormat(contentType) ==
    CASE contentType = "image/jpeg" -> "jpeg"
      [] contentType = "image/webp" -> "webp"
      [] OTHER -> "png"

StatusText(status) ==
    CASE status = 400 -> "400" [] status = 401 -> "401" [] status = 402 -> "402"
      [] status = 403 -> "403" [] status = 429 -> "429" [] OTHER -> "500"

\* C1: when the submission returned a job id, the first k polls (0 <= k < 60)
\* were answered 202 and poll k+1 with another 2xx status, the job is over and
\* returned the body of that response with the format of its content-type,
\* after exactly k+1 waits of 5 seconds and exactly k+1 GETs of the results.
C1_SuccessPath ==
    LET k == Len(received) - 2
        last == received[Len(received)]
    IN  (/\ AsyncJob
         /\ SubmitAccepted
         /\ k >= 0 /\ k < 60
         /\ PendingUpTo(k)
         /\ In2xx(last.status) /\ last.status # 202)
        => /\ pc = "done"
           /\ error = NoError
           /\ result.data = last.data
           /\ result.format = ExpectedFormat(last.contentType)
           /\ waits = k + 1
           /\ elapsed = (k + 1) * 5000
           /\ PollCount = k + 1
           /\ Len(requests) = k + 2

\* three polls answered 202, the fourth with a JPEG
C1_Witness ==
    /\ AsyncJob
    /\ pc = "done"
    /\ Len(received) = 5
    /\ PendingUpTo(3)
    /\ received[5].status = 200
    /\ result.format = "jpeg"
    /\ waits = 4

\* C2: when every poll is answered 202 the job ends after exactly 60 polls,
\* never a 61st, with a timeout error that is neither the error of a non-2xx
\* response nor the rejection of a request's own timeout, and without a result.
C2_PollCeiling ==
    /\ PollCount <= 60
    /\ (AsyncJob /\ Len(received) = 61 /\ PendingUpTo(60))
        => /\ pc = "done"
           /\ error = [name |-> "Error", message |-> TimedOutMessage]
           /\ error \notin Rejections
           /\ ~Includes(error.message, "HTTP")
           /\ result = NoResult
           /\ written = <<>>
           /\ response.isError
           /\ response.data = ""
    /\ error.message = TimedOutMessage
        => PollCount = 60 /\ Len(received) = 61 /\ PendingUpTo(60)

C2_Witness ==
    /\ AsyncJob
    /\ pc = "done"
    /\ PollCount = 60
    /\ waits = 60
    /\ error.message = TimedOutMessage

\* C3, one step: the answer to a poll. A 202 with attempts left is no error and
\* leads to the next interval; a status outside 2xx ends the job at once with
\* an error that carries the status and the text of the body.
C3_PollAnswer ==
    (pc = "polling" /\ Len(received') = Len(received) + 1)
        => LET r == received'[Len(received')]
           IN  /\ (r.status = 202 /\ PollCount < 60)
                    => /\ pc' = "sleeping"
                       /\ error' = NoError
                       /\ ~response'.sent
               /\ ~In2xx(r.status)
                    => /\ pc' = "done"
                       /\ Includes(error'.message, "HTTP " \o StatusText(r.status))
                       /\ Includes(error'.message, r.text)
                       /\ result' = NoResult
                       /\ response'.isError
                       /\ requests' = requests

\* C3, every state: a poll answered outside 2xx is the last request of the job
C3_NoPollAfterFailure ==
    \A i \in 2..Len(received) :
        (AsyncJob /\ ~In2xx(received[i].status))
            => /\ i = Len(received)
               /\ PollCount = i - 1
               /\ pc = "done"

\* C3: during polling a 202 is never an error and leads to the next interval
\* while attempts remain; a non-2xx answer aborts the job at once with an error
\* carrying its status and body text, and no poll follows it.
C3_PollStatus == [][C3_PollAnswer]_vars /\ []C3_NoPollAfterFailure

\* the second poll answered 429
C3_Witness ==
    /\ AsyncJob
    /\ pc = "done"
    /\ PollCount = 2
    /\ Len(received) = 3
    /\ received[2].status = 202
    /\ received[3].status = 429
    /\ Includes(error.message, "Polling failed (HTTP 429): upstream says no")

\* the job is over before any poll was sent
FailedBeforeFirstPoll == AsyncJob /\ pc = "done" /\ error # NoError /\ PollCount = 0

\* the submission was answered, in the 2xx range, with JSON that has no id
SubmitLacksId ==
    /\ Len(received) = 1
    /\ In2xx(received[1].status)
    /\ received[1].jsonOk
    /\ received[1].id = ""

\* C4 as claimed: a job fails before its first poll if and only if the answer to
\* the submission lacks the job id.
C4_OnlyMissingId ==
    AsyncJob => (FailedBeforeFirstPoll <=> SubmitLacksId)

\* the submission request was rejected, or answered outside 2xx, or without
\* JSON, or without an id
SubmitFailed ==
    \/ Len(received) = 0 /\ error \in Rejections
    \/ /\ Len(received) >= 1
       /\ \/ ~In2xx(received[1].status)
          \/ ~received[1].jsonOk
          \/ received[1].id = ""

\* C4 amended: a job fails before its first poll if and only if the submission
\* request is rejected (timeout, network), or is answered with a status outside
\* 2xx, with a body that is not JSON, or with JSON that lacks the job id; then
\* no poll is ever sent.
C4_FailsBeforeFirstPoll ==
    (AsyncJob /\ pc # "postImageAsync")
        => /\ FailedBeforeFirstPoll <=> SubmitFailed
           /\ SubmitFailed => Len(requests) = 1 /\ result = NoResult /\ response.isError

\* the submission answered 200 with JSON that has no id
C4_Witness ==
    /\ FailedBeforeFirstPoll
    /\ SubmitLacksId
    /\ error.message = "No generation ID returned from async endpoint"

JobSucceeded == AsyncJob /\ result # NoResult
JobTimedOut == AsyncJob /\ error.message = TimedOutMessage
JobFailed == AsyncJob /\ error # NoError /\ error.message # TimedOutMessage
JobTerminal == JobSucceeded \/ JobFailed \/ JobTimedOut

\* C5, every state: at most one terminal state, reached exactly when the
\* invocation is over; one submission, first; polls only for the id it returned
C5_JobStates ==
    AsyncJob
        => /\ ~(JobSucceeded /\ (JobFailed \/ JobTimedOut))
           /\ JobTerminal <=> pc = "done"
           /\ \A i \in 2..Len(requests) : IsPoll(requests[i])
           /\ PollCount > 0
                => /\ SubmitAccepted
                   /\ \A i \in 2..Len(requests) :
                        requests[i].url
                            = "https://api.stability.ai/v2beta/results/" \o received[1].id
           /\ pc \in {"sleeping", "polling"} => SubmitAccepted

\* C5, one step: no request is issued for a job that is terminal
C5_NeverRevisited == JobTerminal => requests' = requests /\ received' = received

\* C5: a job goes SUBMITTED -> (POLLING)* -> one of SUCCEEDED, FAILED, TIMED_OUT;
\* no poll happens before the submission succeeded, and a terminal job is never
\* revisited.
C5_StateMachine == []C5_JobStates /\ [][C5_NeverRevisited]_vars

\* a job that succeeded on its second poll
C5_Witness ==
    /\ JobSucceeded
    /\ pc = "done"
    /\ PollCount = 2
    /\ received[2].status = 202

\* C6: every asynchronous job that was submitted ends (succeeded, failed or
\* timed out), given that every request settles and every interval ends.
C6_Terminates == AsyncJob ~> (pc = "done" /\ JobTerminal)

\* a job that ran to the ceiling
C6_Witness ==
    /\ AsyncJob
    /\ pc = "done"
    /\ attempt = 60
    /\ Len(requests) = 61

(***************************************************************************)
(* Properties of the validation of a tool call.                            *)
(***************************************************************************)
\* the "required" list of the inputSchema each tool declares
DeclaredRequired(t) ==
    CASE t = "generate_image" -> {"prompt"}
      [] t \in {"inpaint", "control_sketch", "control_structure", "control_style"} ->
            {"image_path", "prompt"}
      [] t = "search_and_replace" -> {"image_path", "prompt", "search_prompt"}
      [] t = "search_and_recolor" -> {"image_path", "prompt", "select_prompt"}
      [] t = "replace_background" -> {"image_path", "background_prompt"}
      [] t = "style_transfer" -> {"init_image_path", "style_image_path"}
      [] t = "check_balance" -> {}
      [] OTHER -> {"image_path"}

PathParams == {"image_path", "mask_path", "init_image_path", "style_image_path"}

RequiredMissing ==
    \E p \in DeclaredRequired(tool) : p \notin DOMAIN args \/ args[p].s = ""

FileMissing ==
    \E p \in PathParams \cap DOMAIN args :
        args[p].s # "" /\ Resolve(args[p].s) \notin ExistingFiles

\* C7: a call with a required parameter absent or empty, or that names a local
\* file (image, mask, source image) that does not exist, is rejected with an
\* error and without any upstream request.
C7_RejectedBeforeNetwork ==
    (pc # "idle" /\ tool \in Tools /\ (RequiredMissing \/ FileMissing))
        => /\ pc = "done"
           /\ requests = <<>>
           /\ response.sent
           /\ response.isError
           /\ written = <<>>

\* the image exists and the mask does not: only fileBlob finds out
C7_Witness ==
    /\ tool = "erase_object"
    /\ "mask_path" \in DOMAIN args
    /\ args["mask_path"].s = "gone.png"
    /\ "image_path" \in DOMAIN args
    /\ args["image_path"].s = "in.png"
    /\ pc = "done"
    /\ requests = <<>>
    /\ response.isError

\* C8: no request is dispatched for a call with a numeric parameter outside the
\* bound or value set its tool declares.
C8_BoundsEnforced ==
    (tool \in Tools /\ requests # <<>>)
        => \A p \in DOMAIN DeclaredNumeric(tool) \cap DOMAIN args :
                DeclaredOk(DeclaredNumeric(tool)[p], args[p])

(***************************************************************************)
(* The client methods on their own: any options their signatures allow,    *)
(* every subset of the optional ones.  Here `tool` is the method called    *)
(* and `args` its options object.                                          *)
(***************************************************************************)
RequiredOptions(method) ==
    CASE method = "generateImage" -> {"prompt"}
      [] method \in {"inpaint", "controlSketch", "controlStructure", "controlStyle"} ->
            {"image", "prompt"}
      [] method = "searchAndReplace" -> {"image", "prompt", "searchPrompt"}
      [] method = "searchAndRecolor" -> {"image", "prompt", "selectPrompt"}
      [] method = "replaceBackground" -> {"image", "backgroundPrompt"}
      [] method = "styleTransfer" -> {"initImage", "styleImage"}
      [] OTHER -> {"image"}

OptionalOptions(method) ==
    CASE method = "generateImage" ->
            {"model", "negativePrompt", "image", "strength", "seed", "aspectRatio",
             "outputFormat", "stylePreset"}
      [] method = "eraseObject" -> {"mask", "outputFormat"}
      [] method = "inpaint" -> {"mask", "negativePrompt", "seed", "outputFormat"}
      [] method = "outpaint" ->
            {"prompt", "left", "right", "top", "bottom", "creativity", "outputFormat"}
      [] method \in {"searchAndReplace", "searchAndRecolor"} ->
            {"negativePrompt", "seed", "outputFormat"}
      [] method = "removeBackground" -> {"outputFormat"}
      [] method = "replaceBackground" ->
            {"foregroundPrompt", "negativePrompt", "lightSourceDirection",
             "lightSourceStrength", "outputFormat"}
      [] method = "upscaleImage" ->
            {"mode", "prompt", "negativePrompt", "seed", "creativity", "outputFormat"}
      [] method \in {"controlSketch", "controlStructure"} ->
            {"negativePrompt", "seed", "controlStrength", "outputFormat"}
      [] method = "controlStyle" ->
            {"negativePrompt", "seed", "fidelity", "outputFormat"}
      [] method = "styleTransfer" -> {"prompt", "negativePrompt", "seed", "outputFormat"}
      [] OTHER ->
            {"model", "textureResolution", "foregroundRatio", "remesh", "guidanceScale"}

NumericOptions ==
    {"strength", "seed", "left", "right", "top", "bottom", "creativity",
     "lightSourceStrength", "controlStrength", "fidelity", "textureResolution",
     "foregroundRatio", "guidanceScale"}

OptionValues(method, k) ==
    CASE k \in RequiredOptions(method) ->
            IF k = "styleImage" THEN {Str("style.jpeg")}
            ELSE IF k \in {"image", "initImage"} THEN {Str("in.png")}
            ELSE {Str("a red fox")}
      [] k = "image" -> {Str(""), Str("in.png"), Str("gone.png")}
      [] k = "mask" -> {Str(""), Str("/work/mask.PNG")}
      [] k = "model" ->
            IF method = "generateImage"
            THEN {Str(m) : m \in DOMAIN GENERATION_MODELS}
            ELSE {Str(m) : m \in DOMAIN THREE_D_ENDPOINTS}
      [] k = "mode" -> {Str(m) : m \in DOMAIN UPSCALE_ENDPOINTS}
      [] k = "outputFormat" -> {Str("jpeg")}
      [] k = "aspectRatio" -> {Str("16:9")}
      [] k = "stylePreset" -> {Str("anime")}
      [] k = "lightSourceDirection" -> {Str("left")}
      [] k = "remesh" -> {Str("quad")}
      [] k = "seed" -> {Zero, SeedMax}
      [] k \in {"left", "right", "top", "bottom"} -> {IntNum(2000)}
      [] k = "textureResolution" -> {IntNum(1024)}
      [] k = "guidanceScale" -> {Dec(7, 50)}
      [] k \in NumericOptions -> {Zero, Dec(0, 35)}
      [] OTHER -> {Str(""), Str("a red fox")}

RECURSIVE OptionsOver(_, _)
OptionsOver(method, K) ==
    IF K = {} THEN {<<>>}
    ELSE LET k == CHOOSE q \in K : TRUE
         IN  {(k :> v) @@ o : v \in OptionValues(method, k),
                              o \in OptionsOver(method, K \ {k})}

MethodOptions(method) ==
    UNION {OptionsOver(method, RequiredOptions(method) \cup K) :
            K \in SUBSET OptionalOptions(method)}

BuildInit ==
    /\ pc = "client"
    /\ tool \in Methods \ {"checkBalance"}
    /\ args \in MethodOptions(tool)
    /\ requests = <<>>
    /\ received = <<>>
    /\ attempt = 0
    /\ waits = 0
    /\ elapsed = 0
    /\ generationId = ""
    /\ result = NoResult
    /\ error = NoError
    /\ response = NoResponse
    /\ written = <<>>

\* the method builds its form and sends it, or throws for a missing file
ClientBuilds ==
    /\ pc = "client"
    /\ LET f == MethodForm(tool, args)
       IN  IF f.err # NoError
           THEN pc' = "done" /\ error' = f.err /\ requests' = requests
           ELSE /\ pc' = MethodSender(tool, args)
                /\ requests' = <<FirstRequest(MethodSender(tool, args),
                                              MethodEndpoint(tool, args), f.parts)>>
                /\ error' = error
    /\ UNCHANGED <<tool, args, received, attempt, waits, elapsed, generationId,
                   result, response, written>>

BuildNext == ClientBuilds

BuildSpec == BuildInit /\ [][BuildNext]_vars

(***************************************************************************)
(* The multipart body of the request a method sends.                       *)
(***************************************************************************)
Built == pc # "client" /\ Len(requests) = 1
Body == requests[1].body
PartsNamed(name) == {i \in 1..Len(Body) : Body[i].name = name}
TextParts == {i \in 1..Len(Body) : Body[i].kind = "text"}

\* the field of the body that carries an option, as the API names it
OptionField(k) ==
    CASE k = "negativePrompt" -> "negative_prompt"
      [] k = "aspectRatio" -> "aspect_ratio"
      [] k = "stylePreset" -> "style_preset"
      [] k = "searchPrompt" -> "search_prompt"
      [] k = "selectPrompt" -> "select_prompt"
      [] k = "backgroundPrompt" -> "background_prompt"
      [] k = "foregroundPrompt" -> "foreground_prompt"
      [] k = "lightSourceDirection" -> "light_source_direction"
      [] k = "lightSourceStrength" -> "light_source_strength"
      [] k = "controlStrength" -> "control_strength"
      [] k = "textureResolution" -> "texture_resolution"
      [] k = "foregroundRatio" -> "foreground_ratio"
      [] k = "guidanceScale" -> "guidance_scale"
      [] k = "outputFormat" -> "output_format"
      [] OTHER -> k

\* the decimal writing of the numbers the caller may pass
Decimal(v) ==
    CASE v = Zero -> "0"
      [] v = SeedMax -> "4294967294"
      [] v = Dec(0, 35) -> "0.35"
      [] v = IntNum(2000) -> "2000"
      [] v = IntNum(1024) -> "1024"
      [] v = Dec(7, 50) -> "7.5"
      [] OTHER -> "?"

CallerValue(v) == IF IsStr(v) THEN v.s ELSE Decimal(v)

\* The optional text and numeric fields of a method: not its file options, not
\* the selector of its variant (model, mode), not the output format, which has
\* a default.
OptionalFields(method) ==
    OptionalOptions(method) \ {"image", "mask", "model", "mode", "outputFormat"}

\* a caller supplies a string by passing a non-empty one, a number by passing
\* any number, 0 included
Supplied(o, k) == k \in DOMAIN o /\ (IsStr(o[k]) => o[k].s # "")

CarriesOption(o, k) ==
    /\ Cardinality(PartsNamed(OptionField(k))) = 1
    /\ \A i \in PartsNamed(OptionField(k)) :
            Body[i].kind = "text" /\ Body[i].value = CallerValue(o[k])

AppliesTo(method, o, k) ==
    CASE method = "generateImage" /\ k = "stylePreset" ->
            generateImageModel(o) = "core" \/ StartsWith(generateImageModel(o), "sd3.5")
      [] method = "generateImage" /\ k = "strength" ->
            /\ generateImageModel(o) = "ultra" \/ StartsWith(generateImageModel(o), "sd3.5")
            /\ Supplied(o, "image")
      [] method = "upscaleImage" -> upscaleImageMode(o) # "fast"
      [] method = "generate3D" /\ k \in {"foregroundRatio", "remesh"} ->
            generate3DModel(o) = "stable-fast-3d"
      [] method = "generate3D" /\ k = "guidanceScale" -> generate3DModel(o) = "spar3d"
      [] OTHER -> TRUE

IsSd3(o) == "model" \in DOMAIN o /\ StartsWith(o["model"].s, "sd3.5")

TextField(name, value) ==
    /\ Cardinality(PartsNamed(name)) = 1
    /\ \A i \in PartsNamed(name) : Body[i].kind = "text" /\ Body[i].value = value

\* C10: a generation with an SD 3.5 model sends the field model with the model
\* chosen; without an image, mode=text-to-image and neither image nor strength;
\* with an image path, mode=image-to-image, the image as a file part, and
\* strength if and only if the caller gave one.
C10_Sd3Body ==
    (Built /\ tool = "generateImage" /\ IsSd3(args)) =>
        /\ TextField("model", args["model"].s)
        /\ IF Supplied(args, "image")
           THEN /\ TextField("mode", "image-to-image")
                /\ Cardinality(PartsNamed("image")) = 1
                /\ \A i \in PartsNamed("image") :
                      Body[i].kind = "file" /\ Body[i].value = Resolve(args["image"].s)
                /\ IF "strength" \in DOMAIN args
                   THEN TextField("strength", Decimal(args["strength"]))
                   ELSE PartsNamed("strength") = {}
           ELSE /\ TextField("mode", "text-to-image")
                /\ PartsNamed("image") = {}
                /\ PartsNamed("strength") = {}

\* sd3.5-medium given a strength of 0 and no image
C10_Witness ==
    /\ Built
    /\ tool = "generateImage"
    /\ IsSd3(args)
    /\ args["model"].s = "sd3.5-medium"
    /\ "image" \notin DOMAIN args
    /\ "strength" \in DOMAIN args
    /\ args["strength"] = Zero
    /\ PartsNamed("mode") # {}

(***************************************************************************)
(* Properties of a tool call as a whole.                                   *)
(***************************************************************************)
Sent == Len(requests) >= 1
FirstBody == requests[1].body
FirstParts(name) == {i \in 1..Len(FirstBody) : FirstBody[i].name = name}
Given(p) == p \in DOMAIN args /\ (IsStr(args[p]) => args[p].s # "")

\* C11: a generate_image call given the path of an existing image sends the
\* image as a file part, and the strength when one is given, whichever of the
\* five models is selected or defaulted.
C11_ImageToImageEveryModel ==
    (tool = "generate_image" /\ Sent /\ Given("image_path")) =>
        /\ \E i \in FirstParts("image") :
                FirstBody[i].kind = "file"
                    /\ FirstBody[i].value = Resolve(args["image_path"].s)
        /\ Given("strength") => FirstParts("strength") # {}

LastReceived == received[Len(received)]
FailedStatus == Len(received) >= 1 /\ ~In2xx(LastReceived.status)
RequestTimedOut == Sent /\ error # NoError /\ error.name = "TimeoutError"

\* C12: the error returned for a call that met status 401 or 403, 429, 402 or
\* the timeout of a request is the message of that category (the one
\* handleError gives) and not the raw status; the error for any other non-2xx
\* status carries the status code and the text of the body.
C12_NamedCategories ==
    (pc = "done" /\ (FailedStatus \/ RequestTimedOut)) =>
        /\ response.isError
        /\ IF RequestTimedOut \/ LastReceived.status \in {401, 402, 403, 429}
           THEN Includes(response.text, handleError(error).message)
           ELSE /\ Includes(response.text, StatusText(LastReceived.status))
                /\ Includes(response.text, LastReceived.text)

\* C13: on every path (image POST, 3D POST, balance GET, job submission, poll)
\* a response outside 2xx ends the call with an error that carries the status
\* code and the text of the body; nothing was decoded and no payload is returned.
C13_NonOkIsError ==
    \A i \in 1..Len(received) :
        ~In2xx(received[i].status) =>
            /\ i = Len(received)
            /\ pc = "done"
            /\ response.isError
            /\ Includes(response.text, "(HTTP " \o StatusText(received[i].status) \o ")")
            /\ Includes(response.text, received[i].text)
            /\ result = NoResult
            /\ response.data = ""

\* a 3D generation refused for lack of credits
C13_Witness ==
    /\ tool = "generate_3d"
    /\ pc = "done"
    /\ Len(received) = 1
    /\ received[1].status = 402
    /\ received[1].text # ""
    /\ response.isError

Creative ==
    tool = "upscale_image" /\ "mode" \in DOMAIN args /\ args["mode"].s = "creative"
Failed == error # NoError \/ response.isError

\* C14, every state: a synchronous call has issued at most one request; an
\* asynchronous one a single POST, first, and then at most 60 polls; after a
\* response outside 2xx, or one without the job id, no request was added; a
\* failed call is over, with no request issued after the one that failed.
C14_RequestBudget ==
    /\ ~Creative => Len(requests) <= 1
    /\ Creative =>
          /\ \A i \in 1..Len(requests) :
                IF i = 1 THEN requests[i].method = "POST" /\ ~IsPoll(requests[i])
                ELSE IsPoll(requests[i])
          /\ PollCount <= 60
    /\ \A i \in 1..Len(received) : ~In2xx(received[i].status) => Len(requests) = i
    /\ SubmitLacksId => Len(requests) = 1
    /\ Failed =>
          /\ pc = "done"
          /\ Len(requests) \in {Len(received), Len(received) + 1}
          /\ (Len(requests) = Len(received) + 1) => error.name \in {"TimeoutError", "TypeError"}

\* C14, every step: once a call has failed it issues no request.
C14_NothingAfterFailure == Failed => requests' = requests

\* C14: no operation retries.
C14_NoRetry == []C14_RequestBudget /\ [][C14_NothingAfterFailure]_vars

\* a creative upscale whose first poll timed out
C14_Witness ==
    /\ Creative
    /\ pc = "done"
    /\ Len(requests) = 2
    /\ Len(received) = 1
    /\ error.name = "TimeoutError"

BaseTimeout == config.timeout
IsSubmission(q) == q.method = "POST" /\ Includes(q.url, "/upscale/creative")
IsBalance(q) == q.method = "GET" /\ Includes(q.url, "/v1/user/balance")

\* C15: a request whose answer is binary content (an image POST, the 3D POST,
\* the poll of the results) has a timeout of three times the base timeout; a
\* job submission and the balance request have the base timeout.
C15_TimeoutSelection ==
    \A i \in 1..Len(requests) :
        requests[i].timeout =
            IF IsSubmission(requests[i]) \/ IsBalance(requests[i])
            THEN BaseTimeout ELSE 3 * BaseTimeout

\* C16: a request to an endpoint that answers with binary content (generation,
\* editing, fast and conservative upscale, control, 3D generation, the poll of
\* the results) is sent with Accept: image/*; a job submission and the balance
\* request with Accept: application/json; none goes without one of the two.
C16_AcceptSelection ==
    \A i \in 1..Len(requests) :
        requests[i].accept =
            IF IsSubmission(requests[i]) \/ IsBalance(requests[i])
            THEN "application/json" ELSE "image/*"

\* what shows that a call runs, or ran, through postImageAsync: it awaits the
\* submission, sleeps or polls, it has polled, or its POST is that of a
\* submission (JSON accepted, base timeout)
OnAsyncPath ==
    \/ pc \in {"postImageAsync", "sleeping", "polling"}
    \/ PollCount > 0
    \/ generationId # ""
    \/ /\ Sent
       /\ requests[1].method = "POST"
       /\ requests[1].accept = "application/json"
       /\ requests[1].timeout = BaseTimeout

\* C17: a call runs through the submit-then-poll path if and only if it is an
\* upscale with mode creative; any other call that sends anything sends one
\* request, awaits it, and decodes its answer.
C17_AsyncIffCreative ==
    Sent =>
        /\ OnAsyncPath <=> Creative
        /\ ~Creative =>
              /\ Len(requests) = 1
              /\ pc \in {"postImage", "postRaw", "get", "done"}
              /\ pc # "done" => received = <<>>
              /\ result # NoResult =>
                    Len(received) = 1 /\ result.data = received[1].data

\* a conservative upscale, answered at once
C17_Witness ==
    /\ tool = "upscale_image"
    /\ "mode" \in DOMAIN args
    /\ args["mode"].s = "conservative"
    /\ pc = "done"
    /\ Len(requests) = 1
    /\ result # NoResult

RegisteredPaths ==
    {GENERATION_MODELS[k] : k \in DOMAIN GENERATION_MODELS}
        \cup {EDIT_ENDPOINTS[k] : k \in DOMAIN EDIT_ENDPOINTS}
        \cup {UPSCALE_ENDPOINTS[k] : k \in DOMAIN UPSCALE_ENDPOINTS}
        \cup {CONTROL_ENDPOINTS[k] : k \in DOMAIN CONTROL_ENDPOINTS}
        \cup {THREE_D_ENDPOINTS[k] : k \in DOMAIN THREE_D_ENDPOINTS}

FileParts == {i \in 1..Len(FirstBody) : FirstBody[i].kind = "file"}

\* C18, every state: a request is out only once its endpoint was resolved and
\* its body built, every file of the body read by then (so a file that cannot
\* be read leaves no request); a response is received only for a request sent,
\* and a result is decoded only from the response to the last request.
C18_StepsInOrder ==
    /\ Sent =>
          /\ \E path \in RegisteredPaths \cup {"/v1/user/balance"} :
                requests[1].url = API_BASE \o path
          /\ \A i \in FileParts :
                FirstBody[i].value \in ExistingFiles /\ FirstBody[i].type # ""
          /\ ~FileMissing
          /\ IsBalance(requests[1]) \/ FirstBody # <<>>
    /\ Len(received) <= Len(requests)
    /\ result # NoResult =>
          /\ Len(received) = Len(requests)
          /\ Sent
          /\ result.data = LastReceived.data

\* C18, every step: a request that was sent is never rebuilt.
C18_BodyIsFinal == Sent => requests'[1] = requests[1]

SelectorKeys(t, p) ==
    CASE t = "generate_image" /\ p = "model" -> DOMAIN GENERATION_MODELS
      [] t = "upscale_image" /\ p = "mode" -> DOMAIN UPSCALE_ENDPOINTS
      [] t = "generate_3d" /\ p = "model" -> DOMAIN THREE_D_ENDPOINTS
      [] OTHER -> {}

UnknownSelector ==
    \E p \in {"model", "mode"} \cap DOMAIN args :
        SelectorKeys(tool, p) # {} /\ args[p].s \notin SelectorKeys(tool, p)

\* C19: a call whose model or mode is not a key of the registry is rejected as
\* an error of the caller, with no request; every request sent goes to one
\* registered path (or, for a poll, to the results of the job).
C19_UnknownVariantRejected ==
    /\ (pc # "idle" /\ UnknownSelector) =>
          /\ pc = "done"
          /\ requests = <<>>
          /\ received = <<>>
          /\ response.isError
          /\ error.name = "ZodError"
    /\ \A i \in 1..Len(requests) :
          \/ IsPoll(requests[i]) /\ i > 1
          \/ Cardinality({path \in RegisteredPaths \cup {"/v1/user/balance"} :
                            requests[i].url = API_BASE \o path}) = 1

\* a generation with a model that does not exist
C19_Witness ==
    /\ tool = "generate_image"
    /\ "model" \in DOMAIN args
    /\ args["model"].s = "bogus"
    /\ pc = "done"
    /\ requests = <<>>
    /\ response.isError

(***************************************************************************)
(* README, "Tools provided": the API endpoint of each tool.                *)
(***************************************************************************)
ReadmeEndpoints(t) ==
    CASE t = "generate_image" ->
            {"/v2beta/stable-image/generate/ultra", "/v2beta/stable-image/generate/core",
             "/v2beta/stable-image/generate/sd3"}
      [] t = "erase_object" -> {"/v2beta/stable-image/edit/erase"}
      [] t = "inpaint" -> {"/v2beta/stable-image/edit/inpaint"}
      [] t = "outpaint" -> {"/v2beta/stable-image/edit/outpaint"}
      [] t = "search_and_replace" -> {"/v2beta/stable-image/edit/search-and-replace"}
      [] t = "search_and_recolor" -> {"/v2beta/stable-image/edit/search-and-recolor"}
      [] t = "remove_background" -> {"/v2beta/stable-image/edit/remove-background"}
      [] t = "replace_background" ->
            {"/v2beta/stable-image/edit/replace-background-and-relight"}
      [] t = "upscale_image" ->
            {"/v2beta/stable-image/upscale/fast",
             "/v2beta/stable-image/upscale/conservative",
             "/v2beta/stable-image/upscale/creative"}
      [] t = "control_sketch" -> {"/v2beta/stable-image/control/sketch"}
      [] t = "control_structure" -> {"/v2beta/stable-image/control/structure"}
      [] t = "control_style" -> {"/v2beta/stable-image/control/style"}
      [] t = "style_transfer" -> {"/v2beta/stable-image/control/style-transfer"}
      [] t = "generate_3d" ->
            {"/v2beta/3d/stable-fast-3d", "/v2beta/3d/stable-point-aware-3d"}
      [] OTHER -> {"/v1/user/balance"}

Injective(table) ==
    \A a, b \in DOMAIN table : table[a] = table[b] => a = b
PathsOf(table) == {table[k] : k \in DOMAIN table}

\* the last segment of the path a selected variant must lead to
VariantSuffix ==
    CASE tool = "generate_image" ->
            IF "model" \notin DOMAIN args THEN "/core"
            ELSE IF args["model"].s \in {"ultra", "core"} THEN "/" \o args["model"].s
            ELSE "/sd3"
      [] tool = "upscale_image" ->
            IF "mode" \in DOMAIN args THEN "/" \o args["mode"].s ELSE "/fast"
      [] tool = "generate_3d" ->
            IF "model" \in DOMAIN args /\ args["model"].s = "spar3d"
            THEN "/stable-point-aware-3d" ELSE "/stable-fast-3d"
      [] OTHER -> ""

EndsWith(s, suffix) ==
    Len(s) >= Len(suffix) /\ SubSeq(s, Len(s) - Len(suffix) + 1, Len(s)) = suffix

\* C20: five generation models on three paths, the three SD 3.5 models on one
\* of them; seven edit operations, three upscale modes, four control operations
\* and two 3D models each on paths that differ pairwise; and the request of a
\* tool goes to the path the README lists for it, that of the variant selected.
C20_RegistryShape ==
    /\ Cardinality(DOMAIN GENERATION_MODELS) = 5
    /\ Cardinality(PathsOf(GENERATION_MODELS)) = 3
    /\ \A m \in DOMAIN GENERATION_MODELS :
          StartsWith(m, "sd3.5") <=> GENERATION_MODELS[m] = GENERATION_MODELS["sd3.5-large"]
    /\ Cardinality({m \in DOMAIN GENERATION_MODELS : StartsWith(m, "sd3.5")}) = 3
    /\ Cardinality(DOMAIN EDIT_ENDPOINTS) = 7 /\ Injective(EDIT_ENDPOINTS)
    /\ Cardinality(DOMAIN UPSCALE_ENDPOINTS) = 3 /\ Injective(UPSCALE_ENDPOINTS)
    /\ Cardinality(DOMAIN CONTROL_ENDPOINTS) = 4 /\ Injective(CONTROL_ENDPOINTS)
    /\ Cardinality(DOMAIN THREE_D_ENDPOINTS) = 2 /\ Injective(THREE_D_ENDPOINTS)
    /\ Sent =>
          /\ \E path \in ReadmeEndpoints(tool) : requests[1].url = API_BASE \o path
          /\ EndsWith(requests[1].url, VariantSuffix)

\* a relighting sent to its path
C20_Witness ==
    /\ tool = "replace_background"
    /\ Sent
    /\ requests[1].url =
          "https://api.stability.ai/v2beta/stable-image/edit/replace-background-and-relight"

(***************************************************************************)
(* Startup: main() of index.ts with loadConfig() of config.ts.  Here       *)
(* `args` is the environment of the process (a function from the          *)
(* variables that are set to their values), `result` the configuration     *)
(* loaded, `error` what loadConfig threw, `tool` the tool call the         *)
(* connected server was handed, and `pc` is "main", then "serving" (the     *)
(* server is connected), "exit1" or "exit0" (the exit code).               *)
(***************************************************************************)
EnvNames ==
    {"STABILITY_API_KEY", "STABILITY_TIMEOUT", "STABILITY_OUTPUT_DIR",
     "STABILITY_3D_OUTPUT_DIR"}

EnvValues(name) ==
    CASE name = "STABILITY_API_KEY" -> {"", "sk-key"}
      [] name = "STABILITY_TIMEOUT" -> {"", "0", "-5", "abc", "12.5", "60s", "007", "30000"}
      [] OTHER -> {"", "/tmp/out"}

RECURSIVE EnvOver(_)
EnvOver(N) ==
    IF N = {} THEN {<<>>}
    ELSE LET n == CHOOSE q \in N : TRUE
         IN  {(n :> v) @@ e : v \in EnvValues(n), e \in EnvOver(N \ {n})}

Environments == UNION {EnvOver(N) : N \in SUBSET EnvNames}

\* process.env.NAME || fallback
EnvOr(env, name, fallback) ==
    IF name \in DOMAIN env /\ env[name] # "" THEN env[name] ELSE fallback

\* parseInt(s, 10): an optional sign, then the leading digits; NaN without any
parseInt10(s) ==
    IF s # "" /\ SubSeq(s, 1, 1) = "-"
    THEN LET n == parseInt(SubSeq(s, 2, Len(s)))
         IN  IF IsNum(n) THEN [n EXCEPT !.neg = TRUE] ELSE n
    ELSE parseInt(s)

NoConfig == [apiKey |-> "", timeout |-> Undefined, outputDir |-> "", output3dDir |-> ""]

\* loadConfig(): NaN <= 0 is false, so a timeout that does not parse passes
loadConfig(env) ==
    LET apiKey == EnvOr(env, "STABILITY_API_KEY", "")
        timeoutStr == EnvOr(env, "STABILITY_TIMEOUT", "")
        timeout == IF timeoutStr # "" THEN parseInt10(timeoutStr) ELSE IntNum(60000)
    IN  IF apiKey = ""
        THEN [err |-> Err("Stability AI API key not configured. Please set the STABILITY_API_KEY environment variable."),
              config |-> NoConfig]
        ELSE IF IsNum(timeout) /\ NumLe(timeout, Zero)
        THEN [err |-> Err("STABILITY_TIMEOUT must be a positive number"),
              config |-> NoConfig]
        ELSE [err |-> NoError,
              config |-> [apiKey |-> apiKey, timeout |-> timeout,
                          outputDir |-> EnvOr(env, "STABILITY_OUTPUT_DIR", "./generated-images"),
                          output3dDir |-> EnvOr(env, "STABILITY_3D_OUTPUT_DIR", "./generated-3d")]]

StartInit ==
    /\ pc = "main"
    /\ args \in Environments
    /\ tool = ""
    /\ requests = <<>>
    /\ received = <<>>
    /\ attempt = 0
    /\ waits = 0
    /\ elapsed = 0
    /\ generationId = ""
    /\ result = NoConfig
    /\ error = NoError
    /\ response = NoResponse
    /\ written = <<>>

\* main(): the configuration is loaded and the server connected, or the catch
\* logs the failure and exits with code 1
Main ==
    /\ pc = "main"
    /\ LET c == loadConfig(args)
       IN  IF c.err # NoError
           THEN pc' = "exit1" /\ error' = c.err /\ result' = result
           ELSE pc' = "serving" /\ result' = c.config /\ error' = error
    /\ UNCHANGED <<tool, args, requests, received, attempt, waits, elapsed,
                   generationId, response, written>>

\* the connected server is handed a tool call
Serves(t) ==
    /\ pc = "serving"
    /\ tool = ""
    /\ tool' = t
    /\ UNCHANGED <<pc, args, requests, received, attempt, waits, elapsed,
                   generationId, result, error, response, written>>

\* SIGINT or SIGTERM: the server is closed and the process exits with code 0
Signal ==
    /\ pc = "serving"
    /\ pc' = "exit0"
    /\ UNCHANGED <<tool, args, requests, received, attempt, waits, elapsed,
                   generationId, result, error, response, written>>

StartNext ==
    \/ Main
    \/ \E t \in ToolNames : Serves(t)
    \/ Signal

StartSpec == StartInit /\ [][StartNext]_vars

Env(name) == IF name \in DOMAIN args THEN args[name] ELSE ""
AllDigits(s) == s # "" /\ \A i \in 1..Len(s) : IsDigit(SubSeq(s, i, i))
PositiveInteger(s) == AllDigits(s) /\ DigitsToNat(s) > 0
Connected == pc \in {"serving", "exit0"}

\* C21: the server is connected only with a credential that is set and not
\* empty and a timeout that is a positive integer, 60000 when none is set; with
\* the credential missing, or a timeout set to anything but a positive integer,
\* startup ends in exit code 1 and no tool call is ever served.
C21_StartupConfig ==
    /\ Connected =>
          /\ Env("STABILITY_API_KEY") # "" /\ result.apiKey = Env("STABILITY_API_KEY")
          /\ IsInt(result.timeout) /\ NumLt(Zero, result.timeout)
          /\ Env("STABILITY_TIMEOUT") = "" => result.timeout = IntNum(60000)
    /\ (pc # "main" /\ (Env("STABILITY_API_KEY") = ""
                          \/ (Env("STABILITY_TIMEOUT") # ""
                                /\ ~PositiveInteger(Env("STABILITY_TIMEOUT"))))) =>
          pc = "exit1" /\ tool = "" /\ error # NoError

(***************************************************************************)
(* Two invocations in flight on one client.  A client has two fields,      *)
(* apiKey and timeout, assigned by its constructor and read by every       *)
(* request; everything else a method uses is local to its call.  Here each *)
(* variable is a function of the invocation: `tool` the method called,     *)
(* `args` its options, `pc`, `requests`, `received`, `attempt`,            *)
(* `generationId`, `result` and `error` the locals and the outcome of that *)
(* call.  An await is where the other invocation may run.                  *)
(***************************************************************************)
Invocations == {1, 2}

\* the polls of one invocation that are followed
MaxConcPolls == 3

ConcCalls ==
    {<<"upscaleImage", ("image" :> Str("in.png")) @@ ("mode" :> Str("creative"))>>,
     <<"upscaleImage", ("image" :> Str("in.png")) @@ ("outputFormat" :> Str("jpeg"))>>,
     <<"generate3D", ("image" :> Str("in.png"))>>,
     <<"eraseObject", ("image" :> Str("in.png")) @@ ("mask" :> Str("gone.png"))>>}

\* what the service may answer: to a submission, either of two job ids or none
ConcSubmitResponses ==
    {HttpResponse(200, "", "application/json", "", "", "", TRUE, id)
        : id \in {"job-a", "job-b", ""}}
ConcBinaryResponses ==
    {HttpResponse(200, "", "image/jpeg", "42", "SUCCESS", "BYTES", FALSE, ""),
     HttpResponse(200, "", "", "", "", "OTHER BYTES", FALSE, "")}
ConcErrorResponses ==
    {HttpResponse(429, "upstream says no", "application/json", "", "", "", TRUE, "")}

\* a job id kept in a field of the client, where the id of another job lands
PollId_OnClient(i) ==
    generationId[CHOOSE j \in Invocations :
                    generationId[j] # "" /\ \A k \in Invocations :
                        generationId[k] # "" => j <= k]

\* const generationId: a local of the call
PollId(i) == generationId[i]

ConcInit ==
    /\ pc = [i \in Invocations |-> "idle"]
    /\ \E c \in [Invocations -> ConcCalls] :
          /\ tool = [i \in Invocations |-> c[i][1]]
          /\ args = [i \in Invocations |-> c[i][2]]
    /\ requests = [i \in Invocations |-> <<>>]
    /\ received = [i \in Invocations |-> <<>>]
    /\ attempt = [i \in Invocations |-> 0]
    /\ generationId = [i \in Invocations |-> ""]
    /\ result = [i \in Invocations |-> NoResult]
    /\ error = [i \in Invocations |-> NoError]
    /\ waits = 0
    /\ elapsed = 0
    /\ response = NoResponse
    /\ written = <<>>

\* the method runs up to its first fetch
ConcCall(i) ==
    /\ pc[i] = "idle"
    /\ LET f == MethodForm(tool[i], args[i])
           sender == MethodSender(tool[i], args[i])
       IN  IF f.err # NoError
           THEN /\ pc' = [pc EXCEPT ![i] = "done"]
                /\ error' = [error EXCEPT ![i] = f.err]
                /\ requests' = requests
           ELSE /\ pc' = [pc EXCEPT ![i] = sender]
                /\ requests' = [requests EXCEPT ![i] =
                        <<FirstRequest(sender, MethodEndpoint(tool[i], args[i]), f.parts)>>]
                /\ error' = error
    /\ UNCHANGED <<tool, args, received, attempt, waits, elapsed, generationId,
                   result, response, written>>

\* the pending fetch of the invocation rejects
ConcRejects(i, e) ==
    /\ pc[i] \in Awaiting
    /\ pc' = [pc EXCEPT ![i] = "done"]
    /\ error' = [error EXCEPT ![i] = e]
    /\ UNCHANGED <<tool, args, requests, received, attempt, waits, elapsed,
                   generationId, result, response, written>>

\* postImage, or generate3D after postRaw, with the response
ConcSyncResponds(i, r) ==
    /\ pc[i] \in {"postImage", "postRaw"}
    /\ pc' = [pc EXCEPT ![i] = "done"]
    /\ received' = [received EXCEPT ![i] = Append(@, r)]
    /\ IF ~IsOk(r.status)
       THEN /\ error' = [error EXCEPT ![i] =
                    HttpError(IF pc[i] = "postImage" THEN "Stability AI error"
                              ELSE "3D generation failed", r)]
            /\ result' = result
       ELSE /\ result' = [result EXCEPT ![i] =
                    IF pc[i] = "postImage" THEN ImageResult(r) ELSE ThreeDResult(r)]
            /\ error' = error
    /\ UNCHANGED <<tool, args, requests, attempt, waits, elapsed, generationId,
                   response, written>>

\* postImageAsync with the response to the submission
ConcSubmitResponds(i, r) ==
    /\ pc[i] = "postImageAsync"
    /\ received' = [received EXCEPT ![i] = Append(@, r)]
    /\ IF SubmitOutcome(r) # NoError
       THEN /\ pc' = [pc EXCEPT ![i] = "done"]
            /\ error' = [error EXCEPT ![i] = SubmitOutcome(r)]
            /\ UNCHANGED <<attempt, generationId>>
       ELSE /\ generationId' = [generationId EXCEPT ![i] = r.id]
            /\ attempt' = [attempt EXCEPT ![i] = 0]
            /\ pc' = [pc EXCEPT ![i] = "sleeping"]
            /\ error' = error
    /\ UNCHANGED <<tool, args, requests, waits, elapsed, result, response, written>>

\* the interval of the invocation has passed: its poll is sent
ConcTimerFires(i) ==
    /\ pc[i] = "sleeping"
    /\ Len(requests[i]) <= MaxConcPolls
    /\ requests' = [requests EXCEPT ![i] = Append(@, PollRequest(PollId(i)))]
    /\ pc' = [pc EXCEPT ![i] = "polling"]
    /\ UNCHANGED <<tool, args, received, attempt, waits, elapsed, generationId,
                   result, error, response, written>>

\* postImageAsync with the response to a poll
ConcPollResponds(i, r) ==
    /\ pc[i] = "polling"
    /\ received' = [received EXCEPT ![i] = Append(@, r)]
    /\ CASE PollOutcome(r) = "continue" ->
                /\ attempt' = [attempt EXCEPT ![i] = NextAttempt(@)]
                /\ IF LoopContinues(NextAttempt(attempt[i]))
                   THEN pc' = [pc EXCEPT ![i] = "sleeping"] /\ error' = error
                   ELSE /\ pc' = [pc EXCEPT ![i] = "done"]
                        /\ error' = [error EXCEPT ![i] = TimedOutError]
                /\ result' = result
         [] PollOutcome(r) = "throw" ->
                /\ pc' = [pc EXCEPT ![i] = "done"]
                /\ error' = [error EXCEPT ![i] = HttpError("Polling failed", r)]
                /\ UNCHANGED <<attempt, result>>
         [] OTHER ->
                /\ pc' = [pc EXCEPT ![i] = "done"]
                /\ result' = [result EXCEPT ![i] = ImageResult(r)]
                /\ UNCHANGED <<attempt, error>>
    /\ UNCHANGED <<tool, args, requests, waits, elapsed, generationId, response, written>>

ConcNext ==
    \E i \in Invocations :
        \/ ConcCall(i)
        \/ \E e \in Rejections : ConcRejects(i, e)
        \/ \E r \in ConcBinaryResponses \cup ConcErrorResponses : ConcSyncResponds(i, r)
        \/ \E r \in ConcSubmitResponses \cup ConcErrorResponses : ConcSubmitResponds(i, r)
        \/ ConcTimerFires(i)
        \/ \E r \in ConcBinaryResponses \cup PendingResponses \cup ConcErrorResponses :
                ConcPollResponds(i, r)

ConcSpec == ConcInit /\ [][ConcNext]_vars

Rejected(i) == error[i] \in Rejections
\* what an invocation was given: its method and options, the responses to its
\* own requests, and whether its last request was rejected
OwnInputs(i) ==
    <<tool[i], args[i], received[i], IF Rejected(i) THEN error[i] ELSE NoError>>
OwnOutcome(i) == <<requests[i], result[i], error[i]>>
LastOf(seq) == seq[Len(seq)]

\* C22, every state: each invocation's requests are those of its own method and
\* options, with the credential and timeout the client was constructed with, its
\* polls ask for the job its own submission was given, its result is decoded
\* from the last response to its own request and its HTTP error reports that
\* response; two finished invocations given the same inputs have the same
\* requests and outcome.
C22_OwnInputsOnly ==
    /\ \A i \in Invocations :
          /\ Len(received[i]) <= Len(requests[i])
          /\ Len(requests[i]) <= Len(received[i]) + 1
          /\ \A k \in 1..Len(requests[i]) :
                /\ requests[i][k].authorization = "Bearer " \o config.apiKey
                /\ requests[i][k].timeout \in {config.timeout, 3 * config.timeout}
                /\ IF k = 1
                   THEN /\ requests[i][k].url =
                              API_BASE \o MethodEndpoint(tool[i], args[i])
                        /\ requests[i][k].body = MethodForm(tool[i], args[i]).parts
                   ELSE requests[i][k].url =
                              API_BASE \o "/v2beta/results/" \o received[i][1].id
          /\ result[i] # NoResult =>
                /\ pc[i] = "done"
                /\ Len(received[i]) = Len(requests[i])
                /\ result[i].data = LastOf(received[i]).data
          /\ (error[i] # NoError /\ received[i] # <<>>
                /\ ~In2xx(LastOf(received[i]).status)) =>
                Includes(error[i].message,
                         "(HTTP " \o StatusText(LastOf(received[i]).status) \o "): "
                            \o LastOf(received[i]).text)
    /\ \A i, j \in Invocations :
          (pc[i] = "done" /\ pc[j] = "done" /\ OwnInputs(i) = OwnInputs(j))
              => OwnOutcome(i) = OwnOutcome(j)

\* C22, every step: a step belongs to one invocation and leaves the other as
\* it was.
C22_OneInvocationSteps ==
    \E i \in Invocations : \A j \in Invocations \ {i} :
        /\ pc'[j] = pc[j]
        /\ requests'[j] = requests[j]
        /\ received'[j] = received[j]
        /\ attempt'[j] = attempt[j]
        /\ generationId'[j] = generationId[j]
        /\ result'[j] = result[j]
        /\ error'[j] = error[j]
        /\ tool' = tool /\ args' = args

\* C22: concurrent invocations are independent.
C22_Independent == []C22_OwnInputsOnly /\ [][C22_OneInvocationSteps]_vars

\* two creative upscales in flight, given different jobs: the first still
\* polls while the second has its image
C22_Witness ==
    /\ tool[1] = "upscaleImage" /\ tool[2] = "upscaleImage"
    /\ generationId[1] = "job-b" /\ generationId[2] = "job-a"
    /\ pc[1] = "polling" /\ Len(requests[1]) = 3
    /\ pc[2] = "done" /\ result[2] # NoResult /\ Len(requests[2]) = 2

(***************************************************************************)
(* Properties of the result of a tool call.                                *)
(***************************************************************************)
AcceptsOutputFormat(t) == t \in Tools /\ "output_format" \in DOMAIN ZodSchema(t)

\* C23: the request of a tool that accepts output_format carries the field
\* output_format, once, with the caller's format when one was given and png
\* when none was.
C23_OutputFormatSent ==
    (AcceptsOutputFormat(tool) /\ Sent) =>
        /\ Cardinality(FirstParts("output_format")) = 1
        /\ \A i \in FirstParts("output_format") :
              FirstBody[i].value =
                  IF Given("output_format") THEN args["output_format"].s ELSE "png"

Has(name) == PartsNamed(name) # {}
Selected(k, default) == IF Supplied(args, k) THEN args[k].s ELSE default

\* C24: the body carries style_preset only for the core and SD 3.5 models;
\* prompt, negative_prompt, seed and creativity of an upscale only in the
\* conservative and creative modes; foreground_ratio and remesh only for
\* stable-fast-3d, guidance_scale only for spar3d, and texture_resolution for
\* either 3D model whenever it is given.
C24_VariantGated ==
    Built =>
        /\ (tool = "generateImage" /\ Has("style_preset")) =>
              Selected("model", "core") \in
                  {"core", "sd3.5-large", "sd3.5-large-turbo", "sd3.5-medium"}
        /\ (tool = "upscaleImage"
              /\ (Has("prompt") \/ Has("negative_prompt") \/ Has("seed")
                    \/ Has("creativity"))) =>
              Selected("mode", "fast") \in {"conservative", "creative"}
        /\ (tool = "generate3D" /\ (Has("foreground_ratio") \/ Has("remesh"))) =>
              Selected("model", "stable-fast-3d") = "stable-fast-3d"
        /\ (tool = "generate3D" /\ Has("guidance_scale")) =>
              Selected("model", "stable-fast-3d") = "spar3d"
        /\ tool = "generate3D" =>
              (Has("texture_resolution") <=> "textureResolution" \in DOMAIN args)

\* spar3d given every optional field
C24_Witness ==
    /\ Built
    /\ tool = "generate3D"
    /\ DOMAIN args = RequiredOptions(tool) \cup OptionalOptions(tool)
    /\ args["model"].s = "spar3d"
    /\ Has("guidance_scale")
    /\ Has("texture_resolution")
    /\ ~Has("foreground_ratio")
    /\ ~Has("remesh")

(***************************************************************************)
(* getMimeType on its own.  Here `args` is a file path in three pieces     *)
(* (directory, name without extension, extension) and `result` the type    *)
(* inferred for the resolved path, as fileBlob asks for it.                *)
(***************************************************************************)
MimeInputs ==
    [dir : {"", "/work/", "sub.dir/", "/tmp/shots.png/"},
     stem : {"x", "a.b", "IMG_0001"},
     ext : {"", ".jpg", ".JPG", ".Jpg", ".jpeg", ".JPEG", ".JpEg", ".webp", ".WEBP",
            ".WebP", ".png", ".PNG", ".gif", ".GIF", ".bmp", ".BMP", ".tiff",
            ".unknown_ext", ".jpgx", ".svg"}]

MimeInit ==
    /\ pc = "mime"
    /\ args \in MimeInputs
    /\ tool = ""
    /\ requests = <<>>
    /\ received = <<>>
    /\ attempt = 0
    /\ waits = 0
    /\ elapsed = 0
    /\ generationId = ""
    /\ result = ""
    /\ error = NoError
    /\ response = NoResponse
    /\ written = <<>>

\* const mimeType = this.getMimeType(absolutePath)
InferType ==
    /\ pc = "mime"
    /\ result' = getMimeType(Resolve(args.dir \o args.stem \o args.ext))
    /\ pc' = "done"
    /\ UNCHANGED <<tool, args, requests, received, attempt, waits, elapsed,
                   generationId, error, response, written>>

MimeNext == InferType

MimeSpec == MimeInit /\ [][MimeNext]_vars

\* the type the extension stands for, whatever its case
TypeOfExtension(ext) ==
    CASE ext \in {".jpg", ".JPG", ".Jpg", ".jpeg", ".JPEG", ".JpEg"} -> "image/jpeg"
      [] ext \in {".webp", ".WEBP", ".WebP"} -> "image/webp"
      [] ext \in {".png", ".PNG"} -> "image/png"
      [] ext \in {".gif", ".GIF"} -> "image/gif"
      [] ext \in {".bmp", ".BMP"} -> "image/bmp"
      [] OTHER -> "image/png"

\* C25: the content type of a file part is that of the extension of the file,
\* in any case of letters and whatever the directory and the name: image/jpeg
\* for .jpg and .jpeg, image/webp, image/png, image/gif and image/bmp for
\* theirs, image/png for any other extension and for none.
C25_TypeFromExtension == pc = "done" => result = TypeOfExtension(args.ext)

\* IMG_0001.JPG in a directory whose name ends in .png
C25_Witness ==
    /\ pc = "done"
    /\ args.dir = "/tmp/shots.png/"
    /\ args.ext = ".JPG"
    /\ result = "image/jpeg"

ImageTool == tool \in Tools \ {"generate_3d", "check_balance"}

\* the number a seed header stands for
SeedOfHeader(h) ==
    CASE h = "42" -> IntNum(42)
      [] h = "4294967294" -> SeedMax
      [] OTHER -> Undefined

\* the response an image is decoded from: the answer to the POST, or the first
\* answer to a poll that is 2xx and not 202
Decodable ==
    /\ ImageTool
    /\ received # <<>>
    /\ In2xx(LastReceived.status)
    /\ IF Creative THEN Len(received) >= 2 /\ LastReceived.status # 202
       ELSE Len(received) = 1

\* C26: an image is decoded from such a response whatever headers it lacks:
\* its format is jpeg or webp when the content-type says so and png otherwise
\* (no content-type included), whatever output_format was asked for; seed and
\* finish reason are those of the headers, unset when the header is absent;
\* no error is raised.
C26_Decoding ==
    /\ Decodable =>
          /\ pc = "done"
          /\ result # NoResult
          /\ error = NoError
          /\ ~response.isError
    /\ (ImageTool /\ result # NoResult) =>
          /\ Decodable
          /\ result.format = ExpectedFormat(LastReceived.contentType)
          /\ result.seed = SeedOfHeader(LastReceived.seed)
          /\ result.finishReason = LastReceived.finish
          /\ result.data = LastReceived.data

\* a polled image without any of the three headers
C26_Witness ==
    /\ Creative
    /\ result # NoResult
    /\ Len(received) = 3
    /\ received[3].contentType = ""
    /\ received[3].seed = ""
    /\ result.format = "png"
    /\ result.seed = Undefined
    /\ result.finishReason = "CONTENT_FILTERED"

\* the invocation returned what its client method produced
Succeeded == pc = "done" /\ ~Failed

\* C27, every state: while the call is pending nothing is written; a call that
\* ended in an error has written nothing and returns no image content; a call
\* that ended with a payload has written one file, holding the bytes of the
\* last response, every request having been answered.
C27_FilesOfOutcome ==
    /\ pc # "done" => written = <<>>
    /\ (pc = "done" /\ Failed) =>
          /\ written = <<>>
          /\ response.data = ""
          /\ response.mimeType = ""
    /\ (Succeeded /\ tool # "check_balance") =>
          /\ Len(written) = 1
          /\ written[1].data = result.data
          /\ written[1].data = LastReceived.data
          /\ Len(received) = Len(requests)
          /\ In2xx(LastReceived.status)

\* C27, every step: a file is written by the step that ends the call, which
\* issues no request.
C27_WrittenLast ==
    written' # written =>
        /\ pc' = "done"
        /\ requests' = requests
        /\ Len(written') = Len(written) + 1

\* C27: no file and no image content after an error; after a success one file
\* with the bytes of the result, written once the upstream exchange is over.
C27_SaveOnSuccessOnly == [](C27_FilesOfOutcome) /\ [][C27_WrittenLast]_vars

\* an upscale job polled twice and saved, and nothing else written
C27_Witness ==
    /\ tool = "upscale_image"
    /\ Creative
    /\ Succeeded
    /\ Len(requests) = 3
    /\ Len(written) = 1
    /\ written[1].data = "BYTES"
    /\ response.data = "BYTES"

(***************************************************************************)
(* The server over successive tool calls.  The handler registered for      *)
(* CallToolRequestSchema is invoked once per request and keeps nothing     *)
(* between two invocations: when one has returned, the next starts from    *)
(* the state of the first.  The variables are those of one invocation, the *)
(* current one; written is what the current invocation wrote.              *)
(***************************************************************************)
NextCall ==
    /\ pc = "done"
    /\ response.sent
    /\ pc' = "idle"
    /\ tool' = ""
    /\ args' = <<>>
    /\ requests' = <<>>
    /\ received' = <<>>
    /\ attempt' = 0
    /\ waits' = 0
    /\ elapsed' = 0
    /\ generationId' = ""
    /\ result' = NoResult
    /\ error' = NoError
    /\ response' = NoResponse
    /\ written' = <<>>

ServeNext == Next \/ NextCall

ServeSpec == Init /\ [][ServeNext]_vars

\* what makes a call fail before any request, and what fails it afterwards
InvalidCall == tool # "" /\ (tool \notin Tools \/ ~ZodParses(tool, args))
MissingFile ==
    tool \in Tools /\ ZodParses(tool, args) /\ FileCheckError(tool, args) # ""
UpstreamFailure == FailedStatus \/ error \in Rejections

\* C28, every state: whatever was thrown has been answered with isError and
\* the text of the error; an unknown tool, rejected arguments, a missing file,
\* a response outside 2xx and a rejected fetch all end the call with such an
\* answer; and a call that is over has returned a response, after which the
\* handler can be invoked again.
C28_AnsweredWithError ==
    /\ error # NoError =>
          /\ pc = "done"
          /\ response = ErrorResponse("Stability AI error: " \o error.message)
    /\ (InvalidCall \/ MissingFile \/ UpstreamFailure) =>
          /\ pc = "done"
          /\ response.sent
          /\ response.isError
          /\ response.text # ""
    /\ pc = "done" =>
          /\ response.sent
          /\ response.text # ""
          /\ ENABLED NextCall
    /\ pc = "idle" =>
          /\ Init
          /\ \A t \in ToolNames : ENABLED (\E input \in ToolArgs(t) : CallTool(t, input))

\* C28, every step: after a call, failed or not, the server is where it was
\* before it, where it takes any tool call.
C28_ServesOn ==
    pc = "done" =>
        /\ pc' = "idle"
        /\ error' = NoError
        /\ response' = NoResponse
        /\ requests' = <<>>

\* C28: no error escapes the handler, and the server serves the next call.
C28_NoErrorEscapes == [](C28_AnsweredWithError) /\ [][C28_ServesOn]_vars

\* an unknown tool, answered with its name
C28_Witness ==
    /\ pc = "done"
    /\ tool = "no_such_tool"
    /\ requests = <<>>
    /\ response.isError
    /\ response.text = "Stability AI error: Unknown tool: no_such_tool"

\* the last request is a poll that was never answered, and the call is over
PollUnanswered ==
    /\ Creative
    /\ pc = "done"
    /\ PollCount >= 1
    /\ Len(requests) = Len(received) + 1

\* C30, every state: a call that ended on an unanswered poll ended with the
\* rejection of that fetch, returned as the error of the call, not with the
\* timeout of the loop, and produced nothing; the timeout of the loop is
\* reported only after 60 polls, all answered.
C30_RejectionIsTheOutcome ==
    /\ PollUnanswered =>
          /\ error \in Rejections
          /\ error # TimedOutError
          /\ response = ErrorResponse("Stability AI error: " \o error.message)
          /\ response.text # "Stability AI error: " \o TimedOutMessage
          /\ result = NoResult
          /\ written = <<>>
    /\ (error # NoError /\ error.message = TimedOutMessage) =>
          /\ PollCount = 60
          /\ Len(received) = Len(requests)

\* C30, every step: a poll that ends without a response ends the call in that
\* step, and a call ended that way issues no request.
C30_AbortedAtOnce ==
    /\ (pc = "polling" /\ received' = received) =>
          /\ pc' = "done"
          /\ error' \in Rejections
          /\ requests' = requests
    /\ PollUnanswered => requests' = requests

\* C30: a poll that fails without a response aborts the job at once.
C30_PollFailureAborts == [](C30_RejectionIsTheOutcome) /\ [][C30_AbortedAtOnce]_vars

\* the network failed on the second of the polls
C30_Witness ==
    /\ PollUnanswered
    /\ PollCount = 2
    /\ Len(received) = 2
    /\ error.name = "TypeError"
    /\ response.text = "Stability AI error: fetch failed"

\* the format reported to the host, and the extension of the file saved
ReportedFormat == SubSeq(response.mimeType, Len("image/") + 1, Len(response.mimeType))
SavedExtension == ExtName(written[1].path)

\* C29: after a successful image tool call the mimeType of the image content
\* names the format decoded from the content-type of the response, and so does
\* the extension of the file when its path was generated.
C29_ReportedFormatIsDecoded ==
    (Succeeded /\ ImageTool) =>
        /\ StartsWith(response.mimeType, "image/")
        /\ ReportedFormat = result.format
        /\ ~Truthy(args, "save_path") => SavedExtension = "." \o result.format

====
